---- MODULE Spec2Model ----
(***************************************************************************)
(* A model of the DG-LAB V2 controller: the device session                 *)
(* (core/dglab_device.py) over the BLE transport (core/bluetooth.py), the   *)
(* throttled strength sender of the VRChat OSC plugin                       *)
(* (plugins/vrchat_osc/plugin.py) and the WebSocket hub's client registry   *)
(* and periodic broadcast (server/ws_server.py).                            *)
(*                                                                         *)
(* Every coroutine is a process whose program counter names the await it    *)
(* is suspended at; one action runs a coroutine from one await to the next, *)
(* which is what the asyncio event loop does.                               *)
(***************************************************************************)
EXTENDS Integers, Sequences, FiniteSets, TLC

(* ------------------------------ bounds --------------------------------- *)
\* connect() calls that open a transport (each makes one BleakClient)
MaxConnects == 2
\* the same, for a session that is only connected, dropped and disconnected
MaxRestarts == 3
\* unexpected link drops
MaxDrops == 1
\* device-session calls made by command producers (hub clients, HTTP)
MaxCmds == 2

\* update_target_strength calls between two wake-ups of the strength sender
MaxUpdates == 2

\* WebSocket clients that connect to the hub
MaxClients == 2

\* messages the hub handles in a run
MaxMsgs == 2

\* checks the device monitor makes in a run
MaxChecks == 3

\* HTTP requests in a run
MaxRequests == 2

\* loader operations in a run
MaxLoaderOps == 3

(* ------------------------------ data ----------------------------------- *)
Channels == {"A", "B"}

NoClient == 0
NoTask == 0
ClientIds == 1..MaxClients

\* core/models.py: WaveSet.DEFAULT_WAVE_PRESET (the two shortest presets of
\* the catalog)
DEFAULT_WAVE_PRESET ==
    [Constant |-> << <<8, 512, 15>> >>,
     Pulse |-> << <<10, 600, 15>>, <<0, 0, 0>> >>]

\* a catalog WaveSet.load_wave_presets reads from waveconfig.yaml: one preset
\* of three triples
CONFIG_WAVE_PRESET ==
    [Triple |-> << <<5, 200, 10>>, <<8, 300, 15>>, <<12, 400, 20>> >>]

Max2(a, b) == IF a >= b THEN a ELSE b
Min2(a, b) == IF a <= b THEN a ELSE b

\* a clamp that forgets the upper limit
ClampStrength_NoUpper(v) == Max2(0, v)

\* max(0, min(100, v)) of DGLabDevice.set_strength / update_target_strength
ClampStrength(v) == Max2(0, Min2(100, v))

\* what a battery read returns (value[0] of the characteristic)
BatteryReadings == {80}

\* pairs command producers pass to set_strength: out of range and in range
StrengthArgs == { <<-7, 130>>, <<40, 100>> }

\* a triple command producers pass to set_wave (out of the device's ranges)
WaveArgs == { <<40, 2000, 50>> }

ZeroWave == <<0, 0, 0>>

\* values producers pass to update_target_strength
TargetArgs == {-5, 45, 130}

\* strength_scale_factor as a fraction: 0.1 (DEFAULT_CONFIG), 1.0 and 1.5
ScaleFactors == { <<1, 10>>, <<1, 1>>, <<3, 2>> }

\* last_sent_strength's "never sent" value (plugin.py line 74)
NeverSent == -1

\* a scale factor that float() or the arithmetic of the sender rejects
\* (NaN, null, a text that is no number), written 0/0
NotANumber == <<0, 0>>

\* firstIdx: no preset assigned, and assigned but not read yet
NoneAssigned == -2
NotReadYet == -1

\* the plugin directories of a run: the one of the strength sender's plugin
\* and the one of the web page's plugin
P_osc == <<"o", "s", "c">>
P_webui == <<"w", "e", "b", "u", "i">>
PluginDirs == { P_osc, P_webui }

(* ------------------------------ state ---------------------------------- *)
VARIABLES
    \* DGLabState (core/models.py)
    connected, battery, strength, wave,
    \* DGLabDevice fields
    client, wave_task, channel_wave_set, wave_index, stop_event,
    \* the transport: one link per BleakClient made
    link, compat, nConn, nDrops,
    \* the scheduler tasks made so far
    taskPc, taskH, taskWave, nTasks,
    \* connect() in progress
    pcConn, hConn, connResult,
    \* disconnect() in progress
    pcDisc, hDisc, discTask, discResult, retired,
    \* a command producer's call into the session: its position, link,
    \* arguments and outcome, and the pair set_strength returned
    pcCmd, hCmd, cmdArg, cmdResult, cmdRet, nCmds,
    \* the last pair handed to bluetooth.set_strength
    encIn,
    \* per channel: the index the scheduler read first after an assignment
    firstIdx,
    \* WaveSet.WAVE_PRESET, the catalog in use
    WAVE_PRESET,
    \* per channel: the assignments made (0, 1, or 2 for more), and for a
    \* channel assigned once the preset assigned, the number of scheduler
    \* writes started from it (modulo its length) and the triple of the last
    nAssign, assignedSet, tickNo, lastTick,
    \* the strength sender (plugins/vrchat_osc/plugin.py)
    target_strength, last_sent_strength, error_count, strength_scale,
    pcSend, hSend, sendTs, sendOutcome,
    \* the value last supplied per channel, and the calls and writes counted
    \* since the sender's last wake-up, and the calls that wake-up covered
    lastReq, nUpd, tickWrites, nCoalesced,
    \* whether the sender's last wake-up found the session disconnected, and
    \* the failed writes in a row behind the sender (counted up to 5)
    wokeDown, failStreak,
    \* the plugin's configuration: the file found at start-up, the config
    \* global once loaded, and THROTTLE_INTERVAL in milliseconds
    cfgFile, config, THROTTLE_INTERVAL,
    \* DGLabWebSocketServer: running, _stop_event, clients (a dict, in
    \* insertion order), each client's handler, and the _update_task with the
    \* iterator of its broadcast (the dict's size when made, the clients
    \* served) and the recipient of the send in flight
    running, hub_stop_event, clients, pcClient,
    bcastPc, hBcast, bcastSize, bcastSeen, bcastTo,
    \* how each client's handler ended, the registered plugins, and the
    \* message a handler is working on: its position, the client it came
    \* from, the message, the last reply sent to that client, the iterator of
    \* the handler's own broadcast, the messages handled so far, and whether
    \* the handler has changed the session's connection state
    ended, plugins, pluginCalls, reqPc, reqFrom, reqMsg, reqReply, reqSize,
    reqSeen,
    nMsgs, reqChanged,
    \* the messages the clients of this run send
    offered,
    \* the codec of core/bluetooth.py applied to one input: the step taken,
    \* the arguments, the bytes written or read, and the pair decoded
    codPc, codIn, codBytes, codOut,
    \* the device monitor (plugins/device_monitor/plugin.py): where
    \* check_device_status is, the attempts counted by handle_disconnection,
    \* the calls of device.connect() it has made, and the checks so far
    monPc, attempts, monConnects, nChecks,
    \* the HTTP API (plugins/http_api/plugin.py): for each request to
    \* /control/strength, where its handler is, its body, the strengths it
    \* copied from get_state, and the status it answered
    httpPc, httpBody, httpSnap, httpStatus,
    \* where DGLabWebSocketServer.stop is
    stopPc,
    \* the plugin loader (plugins/plugin_loader.py): the names in
    \* loaded_plugins, the last operation with what it found and returned,
    \* and the operations so far
    loaded, loaderOp, nOps,
    \* the DGLabDevice objects the hub has held, each named by the first
    \* handle it opens, the last one being self.device; and the one the
    \* strength sender's plugin holds in its global device
    hubDevs, sndDev

devVars == << connected, battery, strength, wave, client, wave_task,
              channel_wave_set, wave_index, stop_event, link, compat, nConn,
              nDrops, taskPc, taskH, taskWave, nTasks, pcConn, hConn,
              connResult, pcDisc, hDisc, discTask, discResult, retired,
              pcCmd, hCmd, cmdArg, cmdResult, cmdRet, nCmds, encIn,
              firstIdx,
              WAVE_PRESET, nAssign, assignedSet, tickNo, lastTick >>

sendVars == << target_strength, last_sent_strength, error_count,
               strength_scale, pcSend, hSend, sendTs, sendOutcome, lastReq,
               nUpd, tickWrites, nCoalesced, wokeDown, failStreak,
               cfgFile, config, THROTTLE_INTERVAL >>

confVars == << cfgFile, config, THROTTLE_INTERVAL >>

reqVars == << plugins, pluginCalls, reqPc, reqFrom, reqMsg, reqReply, reqSize, reqSeen,
              nMsgs, reqChanged, offered >>

hubVars == << running, hub_stop_event, clients, pcClient, bcastPc, hBcast,
              bcastSize, bcastSeen, bcastTo, ended, reqVars >>

codecVars == << codPc, codIn, codBytes, codOut >>
monVars == << monPc, attempts, monConnects, nChecks >>
httpVars == << httpPc, httpBody, httpSnap, httpStatus >>
loaderVars == << loaded, loaderOp, nOps >>
refVars == << hubDevs, sndDev >>
extVars == << monVars, httpVars, stopPc, loaderVars, refVars >>

\* the HTTP requests of a run
HttpReqs == 1..MaxRequests

vars == << devVars, sendVars, hubVars, codecVars, extVars >>

\* the hub's self.device
HubDevice == hubDevs[Len(hubDevs)]

\* the BleakClients and the scheduler tasks a run can make
Handles == DOMAIN link
Tasks == DOMAIN taskPc

(* --------------------------- device session ---------------------------- *)
PresetNames == DOMAIN WAVE_PRESET

\* WaveSet.get_preset: an unknown name falls back to "Constant", and to one
\* (8, 512, 15) when the catalog has no "Constant"
get_preset(name) ==
    IF name \in PresetNames THEN WAVE_PRESET[name]
    ELSE IF "Constant" \in PresetNames THEN WAVE_PRESET["Constant"]
    ELSE << <<8, 512, 15>> >>

\* an is_connected that trusts the connected flag alone
is_connected_FlagOnly == connected

\* DGLabDevice.is_connected
is_connected ==
    connected /\ client # NoClient /\ link[client] = "open"

TaskDone(t) == t = NoTask \/ taskPc[t] = "done"

\* DGLabDevice.__init__, with room for n BleakClients and tasks
InitDeviceOf(n) ==
    /\ connected = FALSE
    /\ battery = 0
    /\ strength = [c \in Channels |-> 0]
    /\ wave = [c \in Channels |-> ZeroWave]
    /\ client = NoClient
    /\ wave_task = NoTask
    /\ channel_wave_set = [c \in Channels |-> << >>]
    /\ wave_index = [c \in Channels |-> 0]
    /\ stop_event = FALSE
    /\ link = [h \in 1..n |-> "init"]
    /\ compat = [h \in 1..n |-> TRUE]
    /\ nConn = 0
    /\ nDrops = 0
    /\ taskPc = [t \in 1..n |-> "none"]
    /\ taskH = [t \in 1..n |-> NoClient]
    /\ taskWave = [t \in 1..n |-> ZeroWave]
    /\ nTasks = 0
    /\ pcConn = "idle"
    /\ hConn = NoClient
    /\ connResult = "none"
    /\ pcDisc = "idle"
    /\ hDisc = NoClient
    /\ discTask = NoTask
    /\ discResult = "none"
    /\ retired = {}
    /\ pcCmd = "idle"
    /\ hCmd = NoClient
    /\ cmdArg = << >>
    /\ cmdResult = "none"
    /\ cmdRet = << >>
    /\ nCmds = 0
    /\ encIn = <<0, 0>>
    /\ firstIdx = [c \in Channels |-> NoneAssigned]
    /\ nAssign = [c \in Channels |-> 0]
    /\ assignedSet = [c \in Channels |-> << >>]
    /\ tickNo = [c \in Channels |-> 0]
    /\ lastTick = [c \in Channels |-> ZeroWave]

InitDevice == InitDeviceOf(MaxConnects)

dsVars == << connected, battery, strength, wave >>
schedVars == << wave_task, channel_wave_set, wave_index, stop_event, taskPc,
                taskH, taskWave, nTasks, firstIdx, WAVE_PRESET, nAssign,
                assignedSet, tickNo, lastTick >>

playVars == << WAVE_PRESET, nAssign, assignedSet, tickNo, lastTick >>
connVars == << pcConn, hConn, connResult >>
discVars == << pcDisc, hDisc, discTask, discResult, retired >>
cmdVars == << pcCmd, hCmd, cmdArg, cmdResult, cmdRet, nCmds >>

\* a set_strength that stores its arguments as given
StoredStrength_AsGiven(a, b) ==
    [c \in Channels |-> IF c = "A" THEN a ELSE b]

\* DGLabDevice.set_strength, lines 222-228: what is stored for (a, b)
StoredStrength(a, b) ==
    [c \in Channels |-> IF c = "A" THEN ClampStrength(a) ELSE ClampStrength(b)]

\* a set_wave that stores the triple whatever the write did
StoredWave_Always(w, ch, ok, triple) ==
    [w EXCEPT ![ch] = triple]

\* DGLabDevice.set_wave, lines 274-282: the state after a write that ended ok
StoredWave(w, ch, ok, triple) ==
    IF ok THEN [w EXCEPT ![ch] = triple] ELSE w

(* ------------------------------ connect() ------------------------------ *)
\* an exception leaves connect(); clear tells whether an except clause that
\* sets self.client = None caught it (TimeoutError, BleakError)
ConnectRaises(clear) ==
    /\ pcConn' = "idle"
    /\ connResult' = "raised"
    /\ hConn' = NoClient
    /\ client' = IF clear THEN NoClient ELSE client

\* lines 104-107: BleakClient(...) and await client.connect()
ConnectOpens ==
    /\ nConn + 1 \in Handles
    /\ nConn' = nConn + 1
    /\ client' = nConn + 1
    /\ hConn' = nConn + 1
    /\ pcConn' = "opening"
    /\ connResult' = "none"

\* lines 95-107: the guards, then the link is opened
ConnectCalled ==
    /\ pcConn = "idle"
    /\ IF is_connected
       THEN /\ connResult' = "already"
            /\ UNCHANGED << pcConn, hConn, client, nConn >>
       ELSE ConnectOpens
    /\ UNCHANGED << dsVars, schedVars, discVars, cmdVars, link, compat,
                    nDrops, encIn >>

ConnectCall ==
    /\ ConnectCalled
    /\ UNCHANGED << sendVars, hubVars, codecVars, extVars >>

\* line 107 returns: the link is open (the remote has both services or not),
\* or the open timed out or failed (lines 141-148)
ConnectOpened ==
    /\ pcConn = "opening"
    /\ \/ \E c \in BOOLEAN :
            /\ link' = [link EXCEPT ![hConn] = "open"]
            /\ compat' = [compat EXCEPT ![hConn] = c]
            /\ pcConn' = "settle"
            /\ UNCHANGED << hConn, connResult, client >>
       \/ /\ ConnectRaises(TRUE)
          /\ link' = [link EXCEPT ![hConn] = "closed"]
          /\ UNCHANGED compat
    /\ UNCHANGED << sendVars, hubVars, codecVars, extVars >>
    /\ UNCHANGED << dsVars, schedVars, discVars, cmdVars, nConn, nDrops,
                    encIn >>

\* lines 110-122 and 137: after the settle delay the services are inspected;
\* a compatible device sets connected and starts the battery read
ConnectSettled ==
    /\ pcConn = "settle"
    /\ IF client = NoClient
       THEN \* self.client.services on None: AttributeError, caught by nobody
            /\ ConnectRaises(FALSE)
            /\ UNCHANGED connected
       ELSE IF compat[client]
       THEN /\ connected' = TRUE
            /\ IF link[client] = "open"
               THEN /\ pcConn' = "battery"
                    /\ hConn' = client
                    /\ UNCHANGED << connResult, client >>
               ELSE \* update_battery: RuntimeError, caught by nobody
                    ConnectRaises(FALSE)
       ELSE /\ pcConn' = "reject"
            /\ hConn' = client
            /\ UNCHANGED << connected, connResult, client >>
    /\ UNCHANGED << sendVars, hubVars, codecVars, extVars >>
    /\ UNCHANGED << battery, strength, wave, schedVars, discVars, cmdVars,
                    link, compat, nConn, nDrops, encIn >>

\* lines 137-139, 145-148: the incompatible device's link is closed
ConnectRejected ==
    /\ pcConn = "reject"
    /\ link' = [link EXCEPT ![hConn] = "closed"]
    /\ ConnectRaises(TRUE)
    /\ UNCHANGED << sendVars, hubVars, codecVars, extVars >>
    /\ UNCHANGED << dsVars, schedVars, discVars, cmdVars, compat, nConn,
                    nDrops, encIn >>

\* lines 122-123: the battery read ends; then update_strength reads back
ConnectBatteryRead ==
    /\ pcConn = "battery"
    /\ \/ \E b \in BatteryReadings :
            /\ link[hConn] = "open"
            /\ battery' = b
            /\ IF is_connected
               THEN /\ pcConn' = "readback"
                    /\ hConn' = client
                    /\ UNCHANGED << connResult, client >>
               ELSE ConnectRaises(FALSE)
       \/ \* read_gatt_char raised BleakError: lines 145-148
          /\ ConnectRaises(TRUE)
          /\ UNCHANGED battery
    /\ UNCHANGED << sendVars, hubVars, codecVars, extVars >>
    /\ UNCHANGED << connected, strength, wave, schedVars, discVars, cmdVars,
                    link, compat, nConn, nDrops, encIn >>

\* lines 123-126: get_strength never raises and its result is only logged;
\* then set_strength(1, 1) stores and starts its write
ConnectReadBack ==
    /\ pcConn = "readback"
    /\ IF is_connected
       THEN /\ strength' = StoredStrength(1, 1)
            /\ encIn' = << strength'["A"], strength'["B"] >>
            /\ pcConn' = "wS"
            /\ hConn' = client
            /\ UNCHANGED << connResult, client >>
       ELSE /\ ConnectRaises(FALSE)
            /\ UNCHANGED << strength, encIn >>
    /\ UNCHANGED << sendVars, hubVars, codecVars, extVars >>
    /\ UNCHANGED << connected, battery, wave, schedVars, discVars, cmdVars,
                    link, compat, nConn, nDrops >>

\* lines 126-127: the strength write ends either way; set_wave(0,0,0,'A')
ConnectStrengthWritten ==
    /\ pcConn = "wS"
    /\ IF is_connected
       THEN /\ pcConn' = "wA"
            /\ hConn' = client
            /\ UNCHANGED << connResult, client >>
       ELSE ConnectRaises(FALSE)
    /\ UNCHANGED << sendVars, hubVars, codecVars, extVars >>
    /\ UNCHANGED << dsVars, schedVars, discVars, cmdVars, link, compat,
                    nConn, nDrops, encIn >>

\* lines 127-128: channel A's write ends; set_wave(0,0,0,'B')
ConnectWaveAWritten ==
    /\ pcConn = "wA"
    /\ \E ok \in BOOLEAN :
         /\ ok => link[hConn] = "open"
         /\ wave' = StoredWave(wave, "A", ok, ZeroWave)
    /\ IF is_connected
       THEN /\ pcConn' = "wB"
            /\ hConn' = client
            /\ UNCHANGED << connResult, client >>
       ELSE ConnectRaises(FALSE)
    /\ UNCHANGED << sendVars, hubVars, codecVars, extVars >>
    /\ UNCHANGED << connected, battery, strength, schedVars, discVars,
                    cmdVars, link, compat, nConn, nDrops, encIn >>

\* _start_wave_control, lines 321-327
StartWaveControl ==
    IF wave_task # NoTask /\ taskPc[wave_task] # "done"
    THEN UNCHANGED << wave_task, stop_event, taskPc, nTasks >>
    ELSE /\ stop_event' = FALSE
         /\ nTasks' = nTasks + 1
         /\ wave_task' = nTasks + 1
         /\ taskPc' = [taskPc EXCEPT ![nTasks + 1] = "sleep"]

\* lines 128-135: channel B's write ends, the presets are cleared and the
\* scheduler is started; connect() returns
ConnectWaveBWritten ==
    /\ pcConn = "wB"
    /\ \E ok \in BOOLEAN :
         /\ ok => link[hConn] = "open"
         /\ wave' = StoredWave(wave, "B", ok, ZeroWave)
    /\ channel_wave_set' = [c \in Channels |-> << >>]
    /\ StartWaveControl
    /\ pcConn' = "idle"
    /\ hConn' = NoClient
    /\ connResult' = "ok"
    /\ firstIdx' = [c \in Channels |-> NoneAssigned]
    /\ UNCHANGED playVars
    /\ UNCHANGED << sendVars, hubVars, codecVars, extVars >>
    /\ UNCHANGED << connected, battery, strength, client, wave_index, taskH,
                    taskWave, discVars, cmdVars, link, compat,
                    nConn, nDrops, encIn >>

Connect ==
    \/ ConnectCall
    \/ ConnectOpened
    \/ ConnectSettled
    \/ ConnectRejected
    \/ ConnectBatteryRead
    \/ ConnectReadBack
    \/ ConnectStrengthWritten
    \/ ConnectWaveAWritten
    \/ ConnectWaveBWritten

\* the link of an open BleakClient drops
LinkDrop ==
    /\ nDrops < MaxDrops
    /\ \E h \in Handles :
         /\ link[h] = "open"
         /\ link' = [link EXCEPT ![h] = "closed"]
    /\ nDrops' = nDrops + 1
    /\ UNCHANGED << sendVars, hubVars, codecVars, extVars >>
    /\ UNCHANGED << dsVars, schedVars, connVars, discVars, cmdVars, client,
                    compat, nConn, encIn >>

(* --------------------------- the scheduler ----------------------------- *)
\* a tick that calls the transport without set_wave's connection guard
ServeOutcome_Unguarded(ch) ==
    IF channel_wave_set[ch] = << >> THEN "skip"
    ELSE IF wave_index[ch] >= Len(channel_wave_set[ch]) THEN "raise"
    ELSE "write"

\* _wave_control_loop, lines 335-337 and 341-343: what serving channel ch
\* does before its await: nothing (no preset), an exception (IndexError, or
\* set_wave's RuntimeError when not connected), or a write
ServeOutcome(ch) ==
    IF channel_wave_set[ch] = << >> THEN "skip"
    ELSE IF wave_index[ch] >= Len(channel_wave_set[ch]) THEN "raise"
    ELSE IF ~is_connected THEN "raise"
    ELSE "write"

\* the task ends: the loop condition failed, or an exception reached the
\* except clauses of lines 348-351
TaskEnds(t) ==
    /\ taskPc' = [taskPc EXCEPT ![t] = "done"]
    /\ UNCHANGED << taskH, taskWave, firstIdx, playVars >>

\* the task goes to sleep (line 347)
TaskSleeps(t) ==
    /\ taskPc' = [taskPc EXCEPT ![t] = "sleep"]
    /\ UNCHANGED << taskH, taskWave, firstIdx, playVars >>

\* lines 336-337 / 342-343: read the triple at the cursor and start set_wave
TaskWrites(t, ch) ==
    /\ taskPc' = [taskPc EXCEPT ![t] = IF ch = "A" THEN "wA" ELSE "wB"]
    /\ taskH' = [taskH EXCEPT ![t] = client]
    /\ taskWave' = [taskWave EXCEPT
                      ![t] = channel_wave_set[ch][wave_index[ch] + 1]]
    /\ firstIdx' = IF firstIdx[ch] = NotReadYet
                   THEN [firstIdx EXCEPT ![ch] = wave_index[ch]]
                   ELSE firstIdx
    /\ IF nAssign[ch] = 1
       THEN /\ tickNo' = [tickNo EXCEPT
                            ![ch] = (@ + 1) % Len(assignedSet[ch])]
            /\ lastTick' = [lastTick EXCEPT
                              ![ch] = channel_wave_set[ch][wave_index[ch] + 1]]
       ELSE UNCHANGED << tickNo, lastTick >>
    /\ UNCHANGED << WAVE_PRESET, nAssign, assignedSet >>

TaskServes(t, ch) ==
    CASE ServeOutcome(ch) = "write" -> TaskWrites(t, ch)
      [] ServeOutcome(ch) = "raise" -> TaskEnds(t)
      [] ServeOutcome(ch) = "skip" ->
            IF ch = "A"
            THEN CASE ServeOutcome("B") = "write" -> TaskWrites(t, "B")
                   [] ServeOutcome("B") = "raise" -> TaskEnds(t)
                   [] ServeOutcome("B") = "skip" -> TaskSleeps(t)
            ELSE TaskSleeps(t)

\* line 333, then the tick up to its first await
TaskIter(t) ==
    /\ taskPc[t] = "sleep"
    /\ IF stop_event \/ ~is_connected
       THEN TaskEnds(t)
       ELSE TaskServes(t, "A")
    /\ UNCHANGED << sendVars, hubVars, codecVars, extVars >>
    /\ UNCHANGED << dsVars, connVars, discVars, cmdVars, client, wave_task,
                    channel_wave_set, wave_index, stop_event, nTasks, link,
                    compat, nConn, nDrops, encIn >>

\* a cursor that advances without wrapping
NextIndex_NoWrap(i, n) == i + 1

\* lines 338 / 344: the cursor after a write, for a preset of n triples
NextIndex(i, n) == (i + 1) % n

\* lines 337-338 / 343-344: set_wave returns, the cursor advances modulo the
\* length of the channel's current preset, and the tick goes on
TaskWaveWritten(t, ch) ==
    /\ taskPc[t] = (IF ch = "A" THEN "wA" ELSE "wB")
    /\ \E ok \in BOOLEAN :
         /\ ok => link[taskH[t]] = "open"
         /\ wave' = StoredWave(wave, ch, ok, taskWave[t])
    /\ IF Len(channel_wave_set[ch]) = 0
       THEN \* ZeroDivisionError
            /\ TaskEnds(t)
            /\ UNCHANGED wave_index
       ELSE /\ wave_index' =
                 [wave_index EXCEPT
                    ![ch] = NextIndex(@, Len(channel_wave_set[ch]))]
            /\ IF ch = "A" THEN TaskServes(t, "B") ELSE TaskSleeps(t)
    /\ UNCHANGED << sendVars, hubVars, codecVars, extVars >>
    /\ UNCHANGED << connected, battery, strength, connVars, discVars,
                    cmdVars, client, wave_task, channel_wave_set, stop_event,
                    nTasks, link, compat, nConn, nDrops, encIn >>

Scheduler ==
    \E t \in Tasks :
       \/ TaskIter(t)
       \/ TaskWaveWritten(t, "A")
       \/ TaskWaveWritten(t, "B")

(* ----------------------------- disconnect() ---------------------------- *)
\* lines 172-174: the finally clause; disconnect() returns
DisconnectReturns(task) ==
    /\ client' = NoClient
    /\ connected' = FALSE
    /\ pcDisc' = "idle"
    /\ hDisc' = NoClient
    /\ discResult' = "done"
    /\ retired' = retired \cup ({task} \ {NoTask})

\* lines 164-169: wave_task = None, then await self.client.disconnect();
\* with no client the AttributeError is caught at line 170
DisconnectCloses(task) ==
    /\ wave_task' = NoTask
    /\ IF client = NoClient
       THEN DisconnectReturns(task)
       ELSE /\ pcDisc' = "closing"
            /\ hDisc' = client
            /\ UNCHANGED << client, connected, discResult, retired >>

\* lines 152-160: the guard, the stop signal and the wait for the task
DisconnectCalled ==
    /\ pcDisc = "idle"
    /\ IF ~is_connected
       THEN /\ discResult' = "noop"
            /\ UNCHANGED << pcDisc, hDisc, discTask, retired, client,
                            connected, wave_task, stop_event >>
       ELSE IF wave_task = NoTask
       THEN /\ pcDisc' = "closing"
            /\ hDisc' = client
            /\ discTask' = NoTask
            /\ discResult' = "none"
            /\ UNCHANGED << retired, client, connected, wave_task,
                            stop_event >>
       ELSE /\ stop_event' = TRUE
            /\ discTask' = wave_task
            /\ IF taskPc[wave_task] = "done"
               THEN \* wait_for returns at once for a finished task
                    DisconnectCloses(wave_task)
               ELSE /\ pcDisc' = "wait"
                    /\ discResult' = "none"
                    /\ UNCHANGED << hDisc, retired, client, connected,
                                    wave_task >>
    /\ UNCHANGED << battery, strength, wave, channel_wave_set, wave_index,
                    taskPc, taskH, taskWave, nTasks, firstIdx, playVars,
                    connVars,
                    cmdVars, link, compat, nConn, nDrops, encIn >>

\* a caller other than the hub calls disconnect()
DisconnectCall ==
    /\ DisconnectCalled
    /\ UNCHANGED << sendVars, hubVars, codecVars, extVars >>

\* a wait that gives up after the 2 s without cancelling the task
DisconnectWaited_NoCancel ==
    /\ pcDisc = "wait"
    /\ DisconnectCloses(discTask)
    /\ UNCHANGED << sendVars, hubVars, codecVars, extVars >>
    /\ UNCHANGED << battery, strength, wave, channel_wave_set, wave_index,
                    stop_event, taskPc, taskH, taskWave, nTasks, firstIdx,
                    playVars,
                    discTask, connVars, cmdVars, link, compat, nConn, nDrops,
                    encIn >>

\* lines 160-164: the task finished within the 2 s, or wait_for timed out
\* and cancelled it (CancelledError at the task's await ends it)
DisconnectWaited ==
    /\ pcDisc = "wait"
    /\ taskPc' = [taskPc EXCEPT ![discTask] = "done"]
    /\ DisconnectCloses(discTask)
    /\ UNCHANGED << sendVars, hubVars, codecVars, extVars >>
    /\ UNCHANGED << battery, strength, wave, channel_wave_set, wave_index,
                    stop_event, taskH, taskWave, nTasks, firstIdx, playVars,
                    discTask,
                    connVars, cmdVars, link, compat, nConn, nDrops, encIn >>

\* lines 169-174: the close ends, with or without an exception
DisconnectClosed ==
    /\ pcDisc = "closing"
    /\ \E raised \in BOOLEAN :
         link' = IF raised THEN link ELSE [link EXCEPT ![hDisc] = "closed"]
    /\ DisconnectReturns(discTask)
    /\ UNCHANGED << sendVars, hubVars, codecVars, extVars >>
    /\ UNCHANGED << battery, strength, wave, schedVars, discTask, connVars,
                    cmdVars, compat, nConn, nDrops, encIn >>

Disconnect ==
    \/ DisconnectCall
    \/ DisconnectWaited
    \/ DisconnectClosed

(* ------------------------- command producers --------------------------- *)
\* a producer calls DGLabDevice.set_strength(a, b), lines 219-231
CallSetStrength ==
    /\ pcCmd = "idle"
    /\ nCmds < MaxCmds
    /\ nCmds' = nCmds + 1
    /\ \E ab \in StrengthArgs :
         IF is_connected
         THEN /\ strength' = StoredStrength(ab[1], ab[2])
              /\ encIn' = << strength'["A"], strength'["B"] >>
              /\ pcCmd' = "wS"
              /\ cmdArg' = ab
              /\ hCmd' = client
              /\ cmdResult' = "none"
         ELSE /\ cmdResult' = "raised"
              /\ UNCHANGED << strength, encIn, pcCmd, cmdArg, hCmd >>
    /\ cmdRet' = << >>
    /\ UNCHANGED << sendVars, hubVars, codecVars, extVars >>
    /\ UNCHANGED << connected, battery, wave, schedVars, connVars, discVars,
                    client, link, compat, nConn, nDrops >>

\* lines 231-238: the write ends, sent or not ("unsent" is logged only);
\* the pair in the state is returned either way
StrengthWritten ==
    /\ pcCmd = "wS"
    /\ \E ok \in BOOLEAN :
         /\ ok => link[hCmd] = "open"
         /\ cmdResult' = IF ok THEN "ok" ELSE "unsent"
    /\ cmdRet' = << strength["A"], strength["B"] >>
    /\ pcCmd' = "idle"
    /\ hCmd' = NoClient
    /\ cmdArg' = << >>
    /\ UNCHANGED << sendVars, hubVars, codecVars, extVars >>
    /\ UNCHANGED << dsVars, schedVars, connVars, discVars, nCmds,
                    client, link, compat, nConn, nDrops, encIn >>

\* a producer calls DGLabDevice.set_wave(x, y, z, channel), lines 259-272
CallSetWave ==
    /\ pcCmd = "idle"
    /\ nCmds < MaxCmds
    /\ nCmds' = nCmds + 1
    /\ \E w \in WaveArgs, ch \in Channels :
         IF is_connected
         THEN /\ pcCmd' = "wW"
              /\ cmdArg' = << ch, w >>
              /\ hCmd' = client
              /\ cmdResult' = "none"
         ELSE /\ cmdResult' = "raised"
              /\ UNCHANGED << pcCmd, cmdArg, hCmd >>
    /\ UNCHANGED << sendVars, hubVars, codecVars, extVars >>
    /\ UNCHANGED << dsVars, schedVars, connVars, discVars, client, link,
                    compat, nConn, nDrops, encIn, cmdRet >>

\* lines 274-288: the write ends; the state follows a successful write only
WaveWritten ==
    /\ pcCmd = "wW"
    /\ \E ok \in BOOLEAN :
         /\ ok => link[hCmd] = "open"
         /\ wave' = StoredWave(wave, cmdArg[1], ok, cmdArg[2])
         /\ cmdResult' = IF ok THEN "ok" ELSE "failed"
    /\ pcCmd' = "idle"
    /\ hCmd' = NoClient
    /\ cmdArg' = << >>
    /\ UNCHANGED << sendVars, hubVars, codecVars, extVars >>
    /\ UNCHANGED << connected, battery, strength, schedVars, connVars,
                    discVars, nCmds, client, link, compat, nConn, nDrops,
                    encIn, cmdRet >>

\* set_wave_preset, lines 305 and 311-316: channel ch gets the preset and
\* its cursor goes back to 0
AssignPreset(name, ch) ==
    /\ channel_wave_set' = [channel_wave_set EXCEPT ![ch] = get_preset(name)]
    /\ wave_index' = [wave_index EXCEPT ![ch] = 0]
    /\ firstIdx' = [firstIdx EXCEPT ![ch] = NotReadYet]
    /\ nAssign' = [nAssign EXCEPT ![ch] = Min2(@ + 1, 2)]
    /\ assignedSet' = [assignedSet EXCEPT
                         ![ch] = IF nAssign[ch] = 0
                                 THEN get_preset(name) ELSE << >>]
    /\ tickNo' = [tickNo EXCEPT ![ch] = 0]
    /\ lastTick' = [lastTick EXCEPT ![ch] = ZeroWave]

\* a producer calls DGLabDevice.set_wave_preset(name, channel), lines 305-319
CallSetWavePreset ==
    /\ pcCmd = "idle"
    /\ nCmds < MaxCmds
    /\ nCmds' = nCmds + 1
    /\ \E name \in PresetNames \cup {"Unknown"}, ch \in Channels :
         AssignPreset(name, ch)
    /\ cmdResult' = "ok"
    /\ UNCHANGED WAVE_PRESET
    /\ UNCHANGED << sendVars, hubVars, codecVars, extVars >>
    /\ UNCHANGED << dsVars, connVars, discVars, pcCmd, hCmd, cmdArg, cmdRet,
                    client, wave_task, stop_event, taskPc, taskH, taskWave, nTasks,
                    link, compat, nConn, nDrops, encIn >>

Command ==
    \/ CallSetStrength
    \/ StrengthWritten
    \/ CallSetWave
    \/ WaveWritten
    \/ CallSetWavePreset

\* a producer calls DGLabDevice.update_battery(), lines 183-186: the guard,
\* then the read of the battery characteristic starts
CallUpdateBattery ==
    /\ pcCmd = "idle"
    /\ nCmds < MaxCmds
    /\ nCmds' = nCmds + 1
    /\ IF is_connected
       THEN /\ pcCmd' = "rB"
            /\ hCmd' = client
            /\ cmdResult' = "none"
       ELSE /\ cmdResult' = "raised"
            /\ UNCHANGED << pcCmd, hCmd >>
    /\ cmdRet' = << >>
    /\ UNCHANGED << sendVars, hubVars, codecVars, extVars >>
    /\ UNCHANGED << dsVars, schedVars, connVars, discVars, cmdArg, client,
                    link, compat, nConn, nDrops, encIn >>

\* lines 186-189: the read returns and the level is stored, or it raises
BatteryReadEnds ==
    /\ pcCmd = "rB"
    /\ \/ \E b \in BatteryReadings :
            /\ link[hCmd] = "open"
            /\ battery' = b
            /\ cmdResult' = "ok"
            /\ cmdRet' = << b >>
       \/ /\ cmdResult' = "failed"
          /\ UNCHANGED << battery, cmdRet >>
    /\ pcCmd' = "idle"
    /\ hCmd' = NoClient
    /\ UNCHANGED << sendVars, hubVars, codecVars, extVars >>
    /\ UNCHANGED << connected, strength, wave, schedVars, connVars, discVars,
                    cmdArg, nCmds, client, link, compat, nConn, nDrops,
                    encIn >>

(* ------------------------- the strength sender ------------------------- *)
InitSender ==
    /\ target_strength = [c \in Channels |-> 0]
    /\ last_sent_strength = [c \in Channels |-> NeverSent]
    /\ error_count = 0
    /\ strength_scale \in ScaleFactors
    /\ cfgFile = [kind |-> "yaml", interval |-> << 100 >>,
                  scale |-> strength_scale]
    /\ config = [loaded |-> TRUE, interval |-> << 100 >>,
                 scale |-> strength_scale]
    /\ THROTTLE_INTERVAL = 100
    /\ pcSend = "sleep"
    /\ hSend = NoClient
    /\ sendTs = <<0, 0>>
    /\ sendOutcome = "none"
    /\ lastReq = [c \in Channels |-> 0]
    /\ nUpd = 0
    /\ tickWrites = 0
    /\ nCoalesced = 0
    /\ wokeDown = FALSE
    /\ failStreak = 0

\* strength_scale_factor values of a configuration file: none, and the
\* fractions 0, -1/2, 3/2 and a value no arithmetic accepts
FileScales == { << >>, <<0, 1>>, <<-1, 2>>, <<3, 2>>, NotANumber }

\* throttle_interval_ms values of a configuration file: none, 20 and 200
FileIntervals == { << >>, << 20 >>, << 200 >> }

\* the configuration files found at start-up: config.yaml, else
\* config.json, else neither
ConfigFiles ==
    [kind : {"yaml", "json"}, interval : FileIntervals, scale : FileScales]
    \cup { [kind |-> "none", interval |-> << >>, scale |-> << >>] }

\* DEFAULT_CONFIG["osc"], lines 36-41
DEFAULT_CONFIG ==
    [loaded |-> TRUE, interval |-> << 100 >>, scale |-> <<1, 10>>]

\* config.get("osc", {}).get(key, default) on an optional value
GetOr(opt, default) == IF opt = << >> THEN default ELSE opt

\* the plugin before setup(): config is None, THROTTLE_INTERVAL = 0.1,
\* the sender not started, any configuration file on disk
InitPlugin ==
    /\ target_strength = [c \in Channels |-> 0]
    /\ last_sent_strength = [c \in Channels |-> NeverSent]
    /\ error_count = 0
    /\ strength_scale = <<1, 1>>
    /\ cfgFile \in ConfigFiles
    /\ config = [loaded |-> FALSE, interval |-> << >>, scale |-> << >>]
    /\ THROTTLE_INTERVAL = 100
    /\ pcSend = "start"
    /\ hSend = NoClient
    /\ sendTs = <<0, 0>>
    /\ sendOutcome = "none"
    /\ lastReq = [c \in Channels |-> 0]
    /\ nUpd = 0
    /\ tickWrites = 0
    /\ nCoalesced = 0
    /\ wokeDown = FALSE
    /\ failStreak = 0

\* load_config, lines 411-473: a file that loads is taken as it is and the
\* function returns (lines 426, 436); with no file DEFAULT_CONFIG is used
\* and THROTTLE_INTERVAL is set from it (lines 442, 471-473)
load_config ==
    /\ ~config.loaded
    /\ IF cfgFile.kind = "none"
       THEN /\ config' = DEFAULT_CONFIG
            /\ THROTTLE_INTERVAL' =
                  Max2(50, GetOr(config'.interval, << 100 >>)[1])
       ELSE /\ config' = [loaded |-> TRUE, interval |-> cfgFile.interval,
                          scale |-> cfgFile.scale]
            /\ UNCHANGED THROTTLE_INTERVAL
    /\ UNCHANGED << devVars, hubVars, codecVars, extVars >>
    /\ UNCHANGED << target_strength, last_sent_strength, error_count,
                    strength_scale, pcSend, hSend, sendTs, sendOutcome,
                    lastReq, nUpd, tickWrites, nCoalesced, wokeDown,
                    failStreak, cfgFile >>

\* _throttled_strength_sender, lines 303-312: the scale read from the
\* config (1.0 when absent); a value <= 0 becomes 1.0, a value that cannot
\* be compared stays (the except clause of line 311 only logs)
StartScale(v) ==
    IF v = NotANumber THEN v
    ELSE IF v[1] <= 0 THEN <<1, 1>>
    ELSE v

\* setup's callback, line 521, and the sender's preamble, lines 296-314
SenderStarts ==
    /\ pcSend = "start"
    /\ config.loaded
    /\ strength_scale' = StartScale(GetOr(config.scale, <<1, 1>>))
    /\ error_count' = 0
    /\ pcSend' = "sleep"
    /\ UNCHANGED << devVars, hubVars, codecVars, extVars >>
    /\ UNCHANGED << target_strength, last_sent_strength, hSend, sendTs,
                    sendOutcome, lastReq, nUpd, tickWrites, nCoalesced,
                    wokeDown, failStreak, confVars >>

\* an update that only ever raises the target
NewTarget_KeepMax(cur, v) == Max2(cur, ClampStrength(v))

\* update_target_strength, lines 290-292: the target after a call with v
NewTarget(cur, v) ==
    IF cur # ClampStrength(v) THEN ClampStrength(v) ELSE cur

\* update_target_strength(channel, strength), lines 286-292
update_target_strength ==
    /\ nUpd < MaxUpdates
    /\ nUpd' = nUpd + 1
    /\ \E ch \in Channels, v \in TargetArgs :
         /\ target_strength' =
               [target_strength EXCEPT ![ch] = NewTarget(@, v)]
         /\ lastReq' = [lastReq EXCEPT ![ch] = v]
    /\ UNCHANGED << hubVars, codecVars, extVars >>
    /\ UNCHANGED << devVars, last_sent_strength, error_count, strength_scale,
                    pcSend, hSend, sendTs, sendOutcome, tickWrites,
                    nCoalesced, wokeDown, failStreak, confVars >>

\* lines 332-337: max(0, min(100, int(t * float(scale)))) for a target t >= 0
ScaledStrength(t, scale) ==
    Max2(0, Min2(100, (t * scale[1]) \div scale[2]))

\* lines 359-369: the except clause around device.set_strength
SenderOnException ==
    /\ error_count' = error_count + 1
    /\ last_sent_strength' = [c \in Channels |-> NeverSent]
    /\ pcSend' = IF error_count + 1 >= 5 THEN "pause" ELSE "sleep"
    /\ UNCHANGED << strength, encIn, hSend, sendTs >>

\* a sender that keeps its last-sent pair while the session is down
LastSentWhenDown_Kept(ls) == ls

\* lines 325-329: the last-sent pair after a wake-up with the session down
LastSentWhenDown(ls) == [c \in Channels |-> NeverSent]

\* device.is_connected on the object the plugin's global device names
\* (lines 320-329): an object the hub has replaced was disconnected or had
\* lost its link when it was replaced, and nothing connects it again
SenderDeviceConnected == sndDev = HubDevice /\ is_connected

\* lines 318-350: the sender wakes; with a connected session and a scaled
\* target that differs from the last one sent it calls device.set_strength,
\* which stores the pair and starts the transport write
SenderWake ==
    /\ pcSend = "sleep"
    /\ nUpd' = 0
    /\ nCoalesced' = nUpd
    /\ wokeDown' = ~SenderDeviceConnected
    /\ LET ts == << ScaledStrength(target_strength["A"], strength_scale),
                    ScaledStrength(target_strength["B"], strength_scale) >>
       IN IF ~SenderDeviceConnected
          THEN /\ last_sent_strength' = LastSentWhenDown(last_sent_strength)
               /\ tickWrites' = 0
               /\ UNCHANGED << strength, encIn, error_count, pcSend, hSend,
                               sendTs >>
          ELSE IF strength_scale = NotANumber
          THEN \* lines 332-333 raise; line 372 catches, the loop goes on
               /\ tickWrites' = 0
               /\ UNCHANGED << strength, encIn, last_sent_strength,
                               error_count, pcSend, hSend, sendTs >>
          ELSE IF ts[1] # last_sent_strength["A"]
                  \/ ts[2] # last_sent_strength["B"]
          THEN /\ tickWrites' = 1
               /\ IF ~SenderDeviceConnected
                  THEN \* set_strength's RuntimeError, line 220
                       SenderOnException
                  ELSE /\ strength' = StoredStrength(ts[1], ts[2])
                       /\ encIn' = << strength'["A"], strength'["B"] >>
                       /\ pcSend' = "writing"
                       /\ hSend' = client
                       /\ sendTs' = ts
                       /\ UNCHANGED << last_sent_strength, error_count >>
          ELSE /\ tickWrites' = 0
               /\ UNCHANGED << strength, encIn, last_sent_strength,
                               error_count, pcSend, hSend, sendTs >>
    /\ UNCHANGED << hubVars, codecVars, extVars >>
    /\ UNCHANGED << connected, battery, wave, schedVars, connVars, discVars,
                    cmdVars, client, link, compat, nConn, nDrops,
                    target_strength, strength_scale, sendOutcome, lastReq,
                    failStreak, confVars >>

\* lines 350-358: device.set_strength returns, whatever became of the write
\* (bluetooth.set_strength turns an exception into False, DGLabDevice only
\* logs it): the pair counts as sent and the failure count is reset
SenderWritten ==
    /\ pcSend = "writing"
    /\ \E ok \in BOOLEAN :
         /\ ok => link[hSend] = "open"
         /\ sendOutcome' = IF ok THEN "ok" ELSE "failed"
         /\ failStreak' = IF ok THEN 0 ELSE Min2(failStreak + 1, 5)
    /\ last_sent_strength' =
          [c \in Channels |-> IF c = "A" THEN sendTs[1] ELSE sendTs[2]]
    /\ error_count' = 0
    /\ pcSend' = "sleep"
    /\ hSend' = NoClient
    /\ UNCHANGED << hubVars, codecVars, extVars >>
    /\ UNCHANGED << devVars, target_strength, strength_scale, sendTs,
                    lastReq, nUpd, tickWrites, nCoalesced, wokeDown,
                    confVars >>

Sender ==
    \/ SenderWake
    \/ SenderWritten

\* the session as a first connect() that met no failure leaves it
\* (connect, lines 119-135)
SessionUp ==
    /\ connected = TRUE
    /\ battery \in BatteryReadings
    /\ strength = StoredStrength(1, 1)
    /\ wave = [c \in Channels |-> ZeroWave]
    /\ client = 1
    /\ wave_task = 1
    /\ channel_wave_set = [c \in Channels |-> << >>]
    /\ wave_index = [c \in Channels |-> 0]
    /\ stop_event = FALSE
    /\ link = [h \in 1..MaxConnects |-> IF h = 1 THEN "open" ELSE "init"]
    /\ compat = [h \in 1..MaxConnects |-> TRUE]
    /\ nConn = 1
    /\ nDrops = 0
    /\ taskPc = [t \in 1..MaxConnects |-> IF t = 1 THEN "sleep" ELSE "none"]
    /\ taskH = [t \in 1..MaxConnects |-> NoClient]
    /\ taskWave = [t \in 1..MaxConnects |-> ZeroWave]
    /\ nTasks = 1
    /\ pcConn = "idle"
    /\ hConn = NoClient
    /\ connResult = "ok"
    /\ pcDisc = "idle"
    /\ hDisc = NoClient
    /\ discTask = NoTask
    /\ discResult = "none"
    /\ retired = {}
    /\ pcCmd = "idle"
    /\ hCmd = NoClient
    /\ cmdArg = << >>
    /\ cmdResult = "none"
    /\ cmdRet = << >>
    /\ nCmds = 0
    /\ encIn = <<1, 1>>
    /\ firstIdx = [c \in Channels |-> NoneAssigned]
    /\ nAssign = [c \in Channels |-> 0]
    /\ assignedSet = [c \in Channels |-> << >>]
    /\ tickNo = [c \in Channels |-> 0]
    /\ lastTick = [c \in Channels |-> ZeroWave]

(* ------------------------------- the hub ------------------------------- *)
\* a message: data["type"] as its characters, and the fields the handlers
\* read with data.get
Message(type, channel, preset_name, device_address) ==
    [type |-> type, channel |-> channel, preset_name |-> preset_name,
     device_address |-> device_address]

\* no message is being handled
NoMessage == Message(<< >>, "", "", "")
NoReply == [type |-> "none", message |-> << >>]

\* the handlers' side of the hub before any message, for clients that send
\* the messages msgs: one plugin registered (register_plugin, line 420)
InitRequestsOf(msgs) ==
    /\ offered = msgs
    /\ ended = [c \in ClientIds |-> "no"]
    /\ plugins = { P_osc }
    /\ pluginCalls = << >>
    /\ reqPc = "idle"
    /\ reqFrom = NoClient
    /\ reqMsg = NoMessage
    /\ reqReply = NoReply
    /\ reqSize = 0
    /\ reqSeen = {}
    /\ nMsgs = 0
    /\ reqChanged = FALSE

InitRequests == InitRequestsOf({})

\* DGLabWebSocketServer.__init__, lines 38-46
InitHub ==
    /\ running = FALSE
    /\ hub_stop_event = FALSE
    /\ clients = << >>
    /\ pcClient = [c \in ClientIds |-> "new"]
    /\ bcastPc = "none"
    /\ hBcast = NoClient
    /\ bcastSize = 0
    /\ bcastSeen = {}
    /\ bcastTo = 0
    /\ InitRequests

\* the hub as start() leaves it, lines 70-75, before clients that send the
\* messages msgs
HubStartedFor(msgs) ==
    /\ running = TRUE
    /\ hub_stop_event = FALSE
    /\ clients = << >>
    /\ pcClient = [c \in ClientIds |-> "new"]
    /\ bcastPc = "loop"
    /\ hBcast = NoClient
    /\ bcastSize = 0
    /\ bcastSeen = {}
    /\ bcastTo = 0
    /\ InitRequestsOf(msgs)

HubStarted == HubStartedFor({})

\* a finally clause that leaves the entry in the registry
Unregistered_Kept(cl, c) == cl

\* _handle_client, lines 157-158: del self.clients[client_id]
Unregistered(cl, c) == SelectSeq(cl, LAMBDA x : x # c)

\* _handle_client, lines 149-159: an exception leaves the handler of client
\* c; the except clause that catches it names how the handler ended, and
\* the finally clause removes the client's entry
HandlerLeaves(c, how) ==
    /\ pcClient' = [pcClient EXCEPT ![c] = "closed"]
    /\ ended' = [ended EXCEPT ![c] = how]
    /\ clients' = Unregistered(clients, c)

\* _handle_client, lines 122-130: a connection is accepted under a new id
\* and registered, and the initial _send_state starts
HandleClientOpens(c) ==
    /\ running
    /\ pcClient[c] = "new"
    /\ pcClient' = [pcClient EXCEPT ![c] = "hello"]
    /\ clients' = Append(clients, c)
    /\ UNCHANGED << devVars, sendVars, codecVars, extVars, running, hub_stop_event, bcastPc,
                    hBcast, bcastSize, bcastSeen, bcastTo, ended, reqVars >>

\* self.device.is_connected as the hub sees it
HubDeviceConnected == is_connected

\* _handle_client, line 130, and _send_state, lines 351-355: the initial
\* snapshot. On a connected session get_state reads the battery; the read or
\* the send may raise, which ends the handler; otherwise the handler waits
\* for messages
HandleClientGreeted(c) ==
    /\ pcClient[c] = "hello"
    /\ \/ /\ IF HubDeviceConnected
             THEN \E b \in BatteryReadings : battery' = b
             ELSE UNCHANGED battery
          /\ pcClient' = [pcClient EXCEPT ![c] = "open"]
          /\ UNCHANGED << clients, ended >>
       \/ /\ \E how \in {"ConnectionClosedError", "Exception"} :
                 HandlerLeaves(c, how)
          /\ UNCHANGED battery
    /\ UNCHANGED << connected, strength, wave, schedVars, connVars, discVars,
                    cmdVars, client, link, compat, nConn, nDrops, encIn,
                    sendVars, codecVars, extVars, running, hub_stop_event, bcastPc,
                    hBcast, bcastSize, bcastSeen, bcastTo, reqVars >>

\* _handle_client, lines 133 and 149-158: the connection of a handler that
\* waits for a message ends, normally or not
HandleClientEnds(c) ==
    /\ pcClient[c] = "open"
    /\ ~(reqFrom = c /\ reqPc # "idle")
    /\ \E how \in {"ConnectionClosedOK", "ConnectionClosedError"} :
           HandlerLeaves(c, how)
    /\ UNCHANGED << devVars, sendVars, codecVars, extVars, running, hub_stop_event, bcastPc,
                    hBcast, bcastSize, bcastSeen, bcastTo, reqVars >>

\* the positions of the dict's entries the iterator has not passed
Unseen(cl, seen) == { i \in 1..Len(cl) : cl[i] \notin seen }

\* _broadcast_state, lines 388-392: the for statement asks the iterator over
\* self.clients.values() for its next value. A dict whose size is not the
\* one the iterator was made with raises RuntimeError, which nothing in
\* _broadcast_state catches: line 404 logs it and the task ends. Otherwise
\* the next client is sent to, or the loop is over and the task sleeps.
BroadcastNext(cl, size, seen) ==
    IF Len(cl) # size
    THEN /\ bcastPc' = "done"
         /\ bcastTo' = 0
         /\ bcastSeen' = {}
    ELSE IF Unseen(cl, seen) # {}
    THEN LET i == CHOOSE i \in Unseen(cl, seen) :
                     \A j \in Unseen(cl, seen) : i <= j
         IN /\ bcastPc' = "send"
            /\ bcastTo' = cl[i]
            /\ bcastSeen' = seen \cup {cl[i]}
    ELSE /\ bcastPc' = "loop"
         /\ bcastTo' = 0
         /\ bcastSeen' = {}

\* _update_clients_loop, lines 398-401, and _broadcast_state up to its first
\* await: the loop condition, the empty registry, then get_state's battery
\* read on a connected session or the first send
BroadcastBegins ==
    /\ bcastPc = "loop"
    /\ IF hub_stop_event \/ ~running
       THEN /\ bcastPc' = "done"
            /\ UNCHANGED << hBcast, bcastSize, bcastSeen, bcastTo >>
       ELSE IF clients = << >>
       THEN UNCHANGED << bcastPc, hBcast, bcastSize, bcastSeen, bcastTo >>
       ELSE IF is_connected
       THEN /\ bcastPc' = "state"
            /\ hBcast' = client
            /\ UNCHANGED << bcastSize, bcastSeen, bcastTo >>
       ELSE /\ bcastSize' = Len(clients)
            /\ BroadcastNext(clients, Len(clients), {})
            /\ UNCHANGED hBcast
    /\ UNCHANGED << devVars, sendVars, codecVars, extVars, running, hub_stop_event, clients,
                    pcClient, ended, reqVars >>

\* lines 382-388: get_state's update_battery ends. A read that raises leaves
\* _broadcast_state and ends the task at line 404; a read that returns is
\* stored and the iteration over the registry starts
BroadcastStateRead ==
    /\ bcastPc = "state"
    /\ \/ \E b \in BatteryReadings :
            /\ link[hBcast] = "open"
            /\ battery' = b
            /\ bcastSize' = Len(clients)
            /\ BroadcastNext(clients, Len(clients), {})
       \/ /\ bcastPc' = "done"
          /\ UNCHANGED << battery, bcastSize, bcastSeen, bcastTo >>
    /\ hBcast' = NoClient
    /\ UNCHANGED << connected, strength, wave, schedVars, connVars, discVars,
                    cmdVars, client, link, compat, nConn, nDrops, encIn,
                    sendVars, codecVars, extVars, running, hub_stop_event, clients, pcClient,
                    ended, reqVars >>

\* lines 389-392: the send returns or raises (the exception is logged), and
\* the for statement goes on
BroadcastSent ==
    /\ bcastPc = "send"
    /\ BroadcastNext(clients, bcastSize, bcastSeen)
    /\ UNCHANGED << devVars, sendVars, codecVars, extVars, running, hub_stop_event, clients,
                    pcClient, hBcast, bcastSize, ended, reqVars >>

Hub ==
    \/ \E c \in ClientIds : HandleClientOpens(c)
    \/ \E c \in ClientIds : HandleClientGreeted(c)
    \/ \E c \in ClientIds : HandleClientEnds(c)
    \/ BroadcastBegins
    \/ BroadcastStateRead
    \/ BroadcastSent

(* ---------------------------- the dispatcher --------------------------- *)
\* the values of data["type"] the handlers compare with
T_set_wave == <<"s", "e", "t", "_", "w", "a", "v", "e">>
T_set_wave_preset == T_set_wave \o <<"_", "p", "r", "e", "s", "e", "t">>
T_scan_devices ==
    <<"s", "c", "a", "n", "_", "d", "e", "v", "i", "c", "e", "s">>
T_connect_device ==
    <<"c", "o", "n", "n", "e", "c", "t", "_", "d", "e", "v", "i", "c", "e">>
T_disconnect_device == <<"d", "i", "s">> \o T_connect_device
PluginPrefix == <<"p", "l", "u", "g", "i", "n", "_">>

\* str.startswith
StartsWith(s, p) == Len(s) >= Len(p) /\ SubSeq(s, 1, Len(p)) = p

\* line 300: message_type[7:]
PluginName(type) == SubSeq(type, 7 + 1, Len(type))

\* str.upper on the channel names clients send
ToUpper(ch) ==
    CASE ch = "a" -> "A"
      [] ch = "b" -> "B"
      [] OTHER -> ch

\* a channel check that lets every name through
ChannelOk_Any(ch) == TRUE

\* set_wave, lines 262-264, and set_wave_preset, lines 307-309: the channel,
\* upper-cased, is 'A' or 'B'
ChannelOk(ch) == ToUpper(ch) \in Channels

\* channel names in messages: a channel, one in lower case, and no channel
MessageChannels == {"A", "b", "C"}

\* set_wave and set_wave_preset messages
WaveMessages ==
    { Message(T_set_wave, ch, "", "") : ch \in MessageChannels }
    \cup { Message(T_set_wave_preset, ch, n, "") :
             ch \in MessageChannels, n \in {"Pulse", "Unknown"} }

\* messages for the registered plugin, for plugins nobody registered (one
\* with an empty name), and one whose type only resembles the prefix
PluginMessages ==
    { Message(PluginPrefix \o n, "", "", "") :
        n \in { <<"o", "s", "c">>, <<"z", "z">>, << >> } }
    \cup { Message(<<"p", "l", "u", "g", "i", "n">>, "", "", "") }

\* scan_devices, disconnect_device, and connect_device with and without an
\* address
SessionMessages ==
    { Message(T_scan_devices, "", "", ""),
      Message(T_disconnect_device, "", "", ""),
      Message(T_connect_device, "", "", ""),
      Message(T_connect_device, "", "", "AA:BB") }

\* the replies: their type and the parts of their message text
ErrorReply(label, detail) == [type |-> "error", message |-> <<label>> \o detail]
StateReply == [type |-> "state", message |-> << >>]
SuccessReply == [type |-> "success", message |-> << >>]

\* what a registered handler's call ends with: a value it returns (the
\* handlers of this repository return dictionaries json can encode) or an
\* exception
PluginReturns == { <<"ok">>, <<"pong">> }
Running == [raised |-> FALSE, result |-> << >>, done |-> FALSE]
PluginOutcomes ==
    { [raised |-> TRUE, result |-> << >>, done |-> TRUE] }
    \cup { [raised |-> FALSE, result |-> r, done |-> TRUE] :
              r \in PluginReturns }

\* a result reply that leaves the handler's return value out
PluginResult_NoValue(name, result) ==
    [type |-> "plugin_result", plugin |-> name, message |-> << >>]

\* lines 304-307: the reply of type f"plugin_{plugin_name}_result" with the
\* handler's return value
PluginResult(name, result) ==
    [type |-> "plugin_result", plugin |-> name, message |-> result]

\* an answer to an unregistered plugin's message that leaves the name out
PluginNotFound_NoName(name) == ErrorReply("plugin not found", << >>)

\* lines 314-317: f"未找到插件: {plugin_name}"
PluginNotFound(name) == ErrorReply("plugin not found: ", name)

\* the error reply of the except clause of a message type's branch (lines
\* 210-214, 230-234, 247-251, 258-262, 291-296)
HandlerError(type) ==
    ErrorReply(CASE type = T_set_wave -> "set_wave error: "
                 [] type = T_set_wave_preset -> "set_wave_preset error: "
                 [] type = T_scan_devices -> "scan error: "
                 [] type = T_disconnect_device -> "disconnect error: "
                 [] OTHER -> "connect error: ", << >>)

\* what no handler step changes
HandlerFrame ==
    UNCHANGED << sendVars, codecVars, monVars, httpVars, stopPc, loaderVars,
                 sndDev, running, hub_stop_event, bcastPc, hBcast, bcastSize,
                 bcastSeen, bcastTo, plugins, offered >>

\* the handler of client c sends reply r and goes back to waiting for a
\* message; a send that raises ends the handler (lines 143-158)
ReqEnds(c, r) ==
    /\ reqPc' = "idle"
    /\ reqReply' = r
    /\ \/ UNCHANGED << pcClient, clients, ended >>
       \/ HandlerLeaves(c, "ConnectionClosedError")

\* the handler goes back to waiting without a reply
ReqEndsSilently ==
    /\ reqPc' = "idle"
    /\ reqReply' = NoReply
    /\ UNCHANGED << pcClient, clients, ended >>

\* the handler goes on to its next await
ReqGoes(pc) ==
    /\ reqPc' = pc
    /\ reqReply' = NoReply
    /\ UNCHANGED << pcClient, clients, ended >>

\* a message is refused: an error reply and nothing else
Rejected(c, r) ==
    /\ ReqEnds(c, r)
    /\ UNCHANGED devVars

\* the fields of a DGLabDevice object other than its client
DeviceBecomes(d) ==
    /\ connected' = d.connected
    /\ battery' = d.battery
    /\ strength' = d.strength
    /\ wave' = d.wave
    /\ wave_task' = d.wave_task
    /\ channel_wave_set' = d.channel_wave_set
    /\ wave_index' = d.wave_index
    /\ stop_event' = d.stop_event
    /\ firstIdx' = d.firstIdx
    /\ nAssign' = d.nAssign
    /\ assignedSet' = d.assignedSet
    /\ tickNo' = d.tickNo
    /\ lastTick' = d.lastTick

\* the DGLabDevice object the hub holds
HeldDevice ==
    [connected |-> connected, battery |-> battery, strength |-> strength,
     wave |-> wave, client |-> client, wave_task |-> wave_task,
     channel_wave_set |-> channel_wave_set, wave_index |-> wave_index,
     stop_event |-> stop_event, firstIdx |-> firstIdx, nAssign |-> nAssign,
     assignedSet |-> assignedSet, tickNo |-> tickNo, lastTick |-> lastTick]

\* DGLabDevice.__init__, lines 35-43
NewDevice ==
    [connected |-> FALSE, battery |-> 0,
     strength |-> [c \in Channels |-> 0],
     wave |-> [c \in Channels |-> ZeroWave],
     client |-> NoClient, wave_task |-> NoTask,
     channel_wave_set |-> [c \in Channels |-> << >>],
     wave_index |-> [c \in Channels |-> 0],
     stop_event |-> FALSE,
     firstIdx |-> [c \in Channels |-> NoneAssigned],
     nAssign |-> [c \in Channels |-> 0],
     assignedSet |-> [c \in Channels |-> << >>],
     tickNo |-> [c \in Channels |-> 0],
     lastTick |-> [c \in Channels |-> ZeroWave]]

\* lines 281-282 and scan_and_connect, lines 79-80: a new DGLabDevice, whose
\* connect() opens a link
NewDeviceConnects ==
    /\ pcConn = "idle"
    /\ DeviceBecomes(NewDevice)
    /\ ConnectOpens
    /\ UNCHANGED << taskPc, taskH, taskWave, nTasks, WAVE_PRESET, link,
                    compat, nDrops, discVars, cmdVars, encIn >>

\* lines 201-214: set_wave. DGLabDevice.set_wave raises before any await on
\* a session that is not connected and on a channel other than A or B (lines
\* 259-264); otherwise its write starts
OnSetWave(c, msg) ==
    IF ~is_connected \/ ~ChannelOk(msg.channel)
    THEN Rejected(c, HandlerError(msg.type))
    ELSE /\ \E w \in WaveArgs : cmdArg' = << ToUpper(msg.channel), w >>
         /\ pcCmd' = "wW"
         /\ hCmd' = client
         /\ cmdResult' = "none"
         /\ ReqGoes("wave")
         /\ UNCHANGED << dsVars, schedVars, connVars, discVars, client, link,
                         compat, nConn, nDrops, encIn, cmdRet, nCmds >>

\* lines 216-234: set_wave_preset. A name that is not in the catalog is
\* answered at once; DGLabDevice.set_wave_preset raises on a channel other
\* than A or B before it assigns (lines 305-309); otherwise the preset is
\* assigned and _send_state follows
OnSetWavePreset(c, msg) ==
    IF msg.preset_name \notin PresetNames
    THEN Rejected(c, ErrorReply("unknown wave preset: ", << >>))
    ELSE IF ~ChannelOk(msg.channel)
    THEN Rejected(c, HandlerError(msg.type))
    ELSE /\ AssignPreset(msg.preset_name, ToUpper(msg.channel))
         /\ ReqGoes("state")
         /\ UNCHANGED << dsVars, connVars, discVars, cmdVars, client,
                         wave_task, stop_event, taskPc, taskH, taskWave,
                         nTasks, WAVE_PRESET, link, compat, nConn, nDrops,
                         encIn >>

\* the call self.plugins[plugin_name](self.device, data) of line 303
PluginCall(name, msg) ==
    [name |-> name, device |-> HeldDevice, data |-> msg, outcome |-> Running]

\* lines 299-317: a plugin message. A registered handler is called with the
\* hub's device and the message and awaited; an unregistered name is
\* answered with an error
OnPlugin(c, msg) ==
    LET plugin_name == PluginName(msg.type)
    IN IF plugin_name \in plugins
       THEN /\ pluginCalls' = << PluginCall(plugin_name, msg) >>
            /\ ReqGoes("plugin")
            /\ UNCHANGED devVars
       ELSE /\ pluginCalls' = << >>
            /\ Rejected(c, PluginNotFound(plugin_name))

\* lines 264-282: connect_device. Without an address an error is sent; a
\* connected session is disconnected first; then a new DGLabDevice connects
OnConnectDevice(c, msg) ==
    IF msg.device_address = ""
    THEN Rejected(c, ErrorReply("no device address", << >>))
    ELSE /\ nConn + 1 \in Handles
         /\ IF is_connected
            THEN DisconnectCalled /\ ReqGoes("teardown")
            ELSE NewDeviceConnects /\ ReqGoes("connecting")

\* lines 236-243: scan_devices. A connected session is disconnected first;
\* then scan_and_connect scans
OnScanDevices(c, msg) ==
    /\ nConn + 1 \in Handles
    /\ IF is_connected
       THEN DisconnectCalled /\ ReqGoes("teardown")
       ELSE UNCHANGED devVars /\ ReqGoes("scan")

\* lines 253-256: disconnect_device calls disconnect() whatever the session
OnDisconnectDevice(c, msg) ==
    /\ DisconnectCalled
    /\ ReqGoes("teardown")

\* lines 280-281: a connect_device with an address on a session that is not
\* connected makes the hub's new DGLabDevice before the handler's first
\* await
ReplacesDevice(msg) ==
    msg.type = T_connect_device /\ msg.device_address # "" /\ ~is_connected

\* _handle_client, lines 133-137, and _handle_message up to its first await:
\* the handler of client c receives a message and dispatches on its type
HubReceives(c) ==
    /\ pcClient[c] = "open"
    /\ reqPc = "idle"
    /\ pcCmd = "idle" /\ pcConn = "idle" /\ pcDisc = "idle"
    /\ nMsgs < MaxMsgs
    /\ nMsgs' = nMsgs + 1
    /\ reqFrom' = c
    /\ reqSize' = 0
    /\ reqSeen' = {}
    /\ reqChanged' = FALSE
    /\ \E msg \in offered :
         /\ reqMsg' = msg
         /\ hubDevs' = IF ReplacesDevice(msg)
                       THEN Append(hubDevs, nConn + 1)
                       ELSE hubDevs
         /\ CASE msg.type = T_set_wave ->
                   pluginCalls' = << >> /\ OnSetWave(c, msg)
              [] msg.type = T_set_wave_preset ->
                   pluginCalls' = << >> /\ OnSetWavePreset(c, msg)
              [] msg.type = T_scan_devices ->
                   pluginCalls' = << >> /\ OnScanDevices(c, msg)
              [] msg.type = T_disconnect_device ->
                   pluginCalls' = << >> /\ OnDisconnectDevice(c, msg)
              [] msg.type = T_connect_device ->
                   pluginCalls' = << >> /\ OnConnectDevice(c, msg)
              [] OTHER ->
                   IF StartsWith(msg.type, PluginPrefix)
                   THEN OnPlugin(c, msg)
                   ELSE /\ pluginCalls' = << >>
                        /\ Rejected(c, ErrorReply("unknown message type: ",
                                                  msg.type))
    /\ HandlerFrame

\* lines 303-312: the plugin's handler returns and its result is sent, or it
\* raises and an error is sent; the handlers modelled leave the device alone
HubPluginReturned ==
    /\ reqPc = "plugin"
    /\ \E out \in PluginOutcomes :
         /\ pluginCalls' = << [pluginCalls[1] EXCEPT !.outcome = out] >>
         /\ ReqEnds(reqFrom,
                    IF out.raised
                    THEN ErrorReply("plugin error: ", << >>)
                    ELSE PluginResult(pluginCalls[1].name, out.result))
    /\ UNCHANGED devVars
    /\ UNCHANGED << reqFrom, reqMsg, nMsgs, reqSize, reqSeen, reqChanged >>
    /\ UNCHANGED hubDevs
    /\ HandlerFrame

\* lines 194, 209, 229 and _send_state, lines 351-355: the device call has
\* returned and the snapshot is sent to the requester. On a connected
\* session get_state reads the battery first; a read that raises is
\* answered with the branch's error
HubStateSent ==
    /\ reqPc = "state" \/ (reqPc = "wave" /\ pcCmd = "idle")
    /\ IF HubDeviceConnected
       THEN \/ \E b \in BatteryReadings :
                 /\ battery' = b
                 /\ ReqEnds(reqFrom, StateReply)
            \/ /\ UNCHANGED battery
               /\ ReqEnds(reqFrom, HandlerError(reqMsg.type))
       ELSE /\ UNCHANGED battery
            /\ ReqEnds(reqFrom, StateReply)
    /\ UNCHANGED << connected, strength, wave, schedVars, connVars, discVars,
                    cmdVars, client, link, compat, nConn, nDrops, encIn >>
    /\ UNCHANGED << reqFrom, reqMsg, nMsgs, reqSize, reqSeen, reqChanged >>
    /\ HandlerFrame
    /\ UNCHANGED << pluginCalls, hubDevs >>

\* lines 287-290: after its broadcast connect_device answers the requester;
\* scan_devices and disconnect_device answer nothing more
ReqDone ==
    IF reqMsg.type = T_connect_device
    THEN ReqEnds(reqFrom, SuccessReply)
    ELSE ReqEndsSilently

\* _broadcast_state, lines 388-392, called by a handler: as BroadcastNext,
\* but the RuntimeError of a registry that changed size reaches the except
\* clause of the handler's branch
ReqNext(cl, size, seen) ==
    IF Len(cl) # size
    THEN /\ reqSeen' = seen
         /\ ReqEnds(reqFrom, HandlerError(reqMsg.type))
    ELSE IF Unseen(cl, seen) # {}
    THEN LET i == CHOOSE i \in Unseen(cl, seen) :
                     \A j \in Unseen(cl, seen) : i <= j
         IN /\ reqSeen' = seen \cup {cl[i]}
            /\ ReqGoes("bsend")
    ELSE /\ reqSeen' = seen
         /\ ReqDone

\* _broadcast_state, lines 359-388, up to its first await, on the device
\* object the handler has just disconnected or connected
ReqBroadcastBegins ==
    IF clients = << >>
    THEN /\ ReqDone
         /\ UNCHANGED << reqSize, reqSeen >>
    ELSE IF is_connected
    THEN /\ ReqGoes("bstate")
         /\ UNCHANGED << reqSize, reqSeen >>
    ELSE /\ reqSize' = Len(clients)
         /\ ReqNext(clients, Len(clients), {})

\* lines 240-243, 256-257, 276-282: the handler's disconnect() has returned
HubTornDown ==
    /\ reqPc = "teardown"
    /\ pcDisc = "idle"
    /\ reqChanged' = (discResult = "done")
    /\ CASE reqMsg.type = T_connect_device ->
              /\ NewDeviceConnects
              /\ ReqGoes("connecting")
              /\ UNCHANGED << reqSize, reqSeen >>
         [] reqMsg.type = T_scan_devices ->
              /\ ReqGoes("scan")
              /\ UNCHANGED << devVars, reqSize, reqSeen >>
         [] OTHER ->
              /\ ReqBroadcastBegins
              /\ UNCHANGED devVars
    /\ UNCHANGED << reqFrom, reqMsg, nMsgs >>
    /\ HandlerFrame
    /\ UNCHANGED pluginCalls
    /\ hubDevs' = IF reqMsg.type = T_connect_device
                  THEN Append(hubDevs, nConn + 1)
                  ELSE hubDevs

\* line 243: DGLabDevice.scan_and_connect(). The import of line 280 makes the
\* name DGLabDevice local to _handle_message, so it is unbound here and the
\* statement raises UnboundLocalError before any scan: the except clause of
\* the branch answers with an error and the hub keeps the object it had
HubScanned ==
    /\ reqPc = "scan"
    /\ ReqEnds(reqFrom, HandlerError(reqMsg.type))
    /\ UNCHANGED devVars
    /\ UNCHANGED << reqFrom, reqMsg, nMsgs, reqSize, reqSeen, reqChanged >>
    /\ HandlerFrame
    /\ UNCHANGED << pluginCalls, hubDevs >>

\* lines 243-251 and 282-296: connect() has returned or raised. After a
\* connect that returned the state is broadcast; one that raised is answered
\* with an error
HubConnectReturned ==
    /\ reqPc = "connecting"
    /\ pcConn = "idle"
    /\ IF connResult = "ok"
       THEN /\ reqChanged' = TRUE
            /\ UNCHANGED devVars
            /\ ReqBroadcastBegins
       ELSE /\ UNCHANGED << reqChanged, reqSize, reqSeen >>
            /\ ReqEnds(reqFrom, HandlerError(reqMsg.type))
            /\ UNCHANGED devVars
    /\ UNCHANGED << reqFrom, reqMsg, nMsgs >>
    /\ HandlerFrame
    /\ UNCHANGED << pluginCalls, hubDevs >>

\* _broadcast_state, lines 381-388: get_state's battery read ends; a read
\* that raises reaches the except clause of the handler's branch
HubBroadcastStateRead ==
    /\ reqPc = "bstate"
    /\ \/ \E b \in BatteryReadings :
            /\ client # NoClient
            /\ link[client] = "open"
            /\ battery' = b
            /\ reqSize' = Len(clients)
            /\ ReqNext(clients, Len(clients), {})
       \/ /\ ReqEnds(reqFrom, HandlerError(reqMsg.type))
          /\ UNCHANGED << battery, reqSize, reqSeen >>
    /\ UNCHANGED << connected, strength, wave, schedVars, connVars, discVars,
                    cmdVars, client, link, compat, nConn, nDrops, encIn >>
    /\ UNCHANGED << reqFrom, reqMsg, nMsgs, reqChanged >>
    /\ HandlerFrame
    /\ UNCHANGED << pluginCalls, hubDevs >>

\* _broadcast_state, lines 389-392: a send returns or raises (the exception
\* is logged), and the for statement goes on
HubBroadcastSent ==
    /\ reqPc = "bsend"
    /\ ReqNext(clients, reqSize, reqSeen)
    /\ UNCHANGED << devVars, reqSize >>
    /\ UNCHANGED << reqFrom, reqMsg, nMsgs, reqChanged >>
    /\ HandlerFrame
    /\ UNCHANGED << pluginCalls, hubDevs >>

(* ------------------------------ the codec ------------------------------ *)
\* values passed to bluetooth.set_strength
StrengthInputs == (0..100) \cup {-7, 130}

\* values passed to bluetooth.set_wave for x and z, and for y
WaveXZInputs == {-3, 0, 17, 31, 40, 50}
WaveYInputs == {-1, 0, 600, 1023, 2000}

\* byte values of a payload read from the strength characteristic
PayloadBytes == {0, 32, 255}

\* payloads of 0 to 4 bytes
ReadBackPayloads ==
    UNION { [1..n -> PayloadBytes] : n \in 0..4 }

\* int.to_bytes(3, byteorder="little"); the empty sequence stands for the
\* OverflowError of a value that does not fit
ToBytes3(v) ==
    IF v < 0 \/ v >= 16777216 THEN << >>
    ELSE << v % 256, (v \div 256) % 256, (v \div 65536) % 256 >>

\* int.from_bytes(arr, byteorder="little")
RECURSIVE FromBytes(_)
FromBytes(arr) ==
    IF Len(arr) = 0 THEN 0 ELSE arr[1] + 256 * FromBytes(Tail(arr))

\* bluetooth.set_strength, lines 129-138: clamp, int(pct * 1023 / 100), clamp
RawStrength(pct) ==
    Min2(1023, Max2(0, (Max2(0, Min2(100, pct)) * 1023) \div 100))

\* bluetooth.set_strength, lines 143-153: the three bytes written
EncodeStrength(a, b) ==
    ToBytes3((RawStrength(a) * 2) * 2048 + RawStrength(b) * 2)

\* a decoder that forgets to halve
DecodeStrength_NoHalve(arr) ==
    LET raw == FromBytes(SubSeq(arr, 1, Min2(3, Len(arr))))
        pct(r) == Min2(100, Max2(0, (r * 100) \div 1023))
    IN << pct((raw \div 2048) % 2048), pct(raw % 2048) >>

\* bluetooth.get_strength, lines 92-110: the pair decoded from a payload
DecodeStrength(arr) ==
    LET raw == FromBytes(SubSeq(arr, 1, Min2(3, Len(arr))))
        pct(r) == Min2(100, Max2(0, (r * 100) \div 1023))
    IN << pct(((raw \div 2048) % 2048) \div 2), pct((raw % 2048) \div 2) >>

\* a clamp of the waveform fields that lets y through
ClampWave_YUnbounded(x, y, z) ==
    << Max2(0, Min2(31, x)), Max2(0, y), Max2(0, Min2(31, z)) >>

\* bluetooth.set_wave, lines 189-191
ClampWave(x, y, z) ==
    << Max2(0, Min2(31, x)), Max2(0, Min2(1023, y)), Max2(0, Min2(31, z)) >>

\* bluetooth.set_wave, lines 196-197: the three bytes written
EncodeWave(x, y, z) ==
    LET c == ClampWave(x, y, z)
    IN ToBytes3(c[3] * 32768 + c[2] * 32 + c[1])

InitCodec ==
    /\ codPc = "start"
    /\ codIn = << >>
    /\ codBytes = << >>
    /\ codOut = << >>

\* bluetooth.set_strength(client, a, b) up to its write
SetStrengthEncodes ==
    /\ codPc = "start"
    /\ \E a \in StrengthInputs, b \in StrengthInputs :
         /\ codIn' = << a, b >>
         /\ codBytes' = EncodeStrength(a, b)
    /\ codPc' = "strength"
    /\ UNCHANGED << devVars, sendVars, hubVars, extVars, codOut >>

\* bluetooth.get_strength reads back the bytes just written
GetStrengthDecodesWritten ==
    /\ codPc = "strength"
    /\ codOut' = DecodeStrength(codBytes)
    /\ codPc' = "roundtrip"
    /\ UNCHANGED << devVars, sendVars, hubVars, extVars, codIn, codBytes >>

\* bluetooth.get_strength on a payload of any length; it returns a pair for
\* each (and (0, 0) from its except clause)
GetStrengthDecodes ==
    /\ codPc = "start"
    /\ \E arr \in ReadBackPayloads :
         /\ codBytes' = arr
         /\ codOut' = DecodeStrength(arr)
    /\ codPc' = "readback"
    /\ UNCHANGED << devVars, sendVars, hubVars, extVars, codIn >>

\* bluetooth.set_wave(client, channel, x, y, z) up to its write
SetWaveEncodes ==
    /\ codPc = "start"
    /\ \E x \in WaveXZInputs, y \in WaveYInputs, z \in WaveXZInputs :
         /\ codIn' = << x, y, z >>
         /\ codBytes' = EncodeWave(x, y, z)
    /\ codPc' = "wave"
    /\ UNCHANGED << devVars, sendVars, hubVars, extVars, codOut >>

Codec ==
    \/ SetStrengthEncodes
    \/ GetStrengthDecodesWritten
    \/ GetStrengthDecodes
    \/ SetWaveEncodes

(* -------------------------- the device monitor ------------------------- *)
\* DEFAULT_CONFIG, lines 24-32
auto_reconnect == TRUE
max_reconnect_attempts == 3
battery_warning == 20

\* the methods of DGLabWebSocketServer (server/ws_server.py, lines 24-409)
HubMethods ==
    { "start", "stop", "_handle_client", "_handle_message", "_send_state",
      "_broadcast_state", "_update_clients_loop", "register_plugin" }

\* broadcast_status, lines 193-200: with the server reference the loader
\* injected, ws_server.broadcast(...) is looked up on the hub; a method the
\* hub does not have raises AttributeError
BroadcastStatusRaises == "broadcast" \notin HubMethods

InitMonitor ==
    /\ monPc = "sleep"
    /\ attempts = 0
    /\ monConnects = 0
    /\ nChecks = 0


\* check_device_status, lines 143-158: a check. A connected device has its
\* battery read; a disconnected one is handed to handle_disconnection
\* (lines 165-174), which without auto_reconnect only announces the loss
MonitorChecks ==
    /\ monPc = "sleep"
    /\ nChecks < MaxChecks
    /\ nChecks' = nChecks + 1
    /\ IF is_connected
       THEN /\ monPc' = "battery"
            /\ UNCHANGED << attempts, monConnects >>
       ELSE /\ attempts' = 0
            /\ monConnects' = 0
            /\ monPc' = IF auto_reconnect /\ 0 < max_reconnect_attempts
                        THEN "attempt"
                        ELSE "final"
    /\ UNCHANGED << devVars, sendVars, hubVars, codecVars, httpVars, stopPc, loaderVars, refVars >>

\* lines 146-154: update_battery returns or raises; a level at or under the
\* warning threshold is announced. Whatever raises is caught at line 160
MonitorBatteryRead ==
    /\ monPc = "battery"
    /\ \/ \E b \in BatteryReadings :
            /\ client # NoClient
            /\ link[client] = "open"
            /\ battery' = b
       \/ UNCHANGED battery
    /\ monPc' = "sleep"
    /\ UNCHANGED << connected, strength, wave, schedVars, connVars, discVars,
                    cmdVars, client, link, compat, nConn, nDrops, encIn >>
    /\ UNCHANGED << attempts, monConnects, nChecks >>
    /\ UNCHANGED << sendVars, hubVars, codecVars, httpVars, stopPc, loaderVars, refVars >>

\* lines 176-186: one round of the reconnect loop. The announcement of line
\* 178 is inside the try block, before the connect of line 179: when it
\* raises, the except clause counts an attempt and connect() is not called
MonitorAttempt ==
    /\ monPc = "attempt"
    /\ IF BroadcastStatusRaises
       THEN /\ attempts' = attempts + 1
            /\ monPc' = IF attempts + 1 < max_reconnect_attempts
                        THEN "wait"
                        ELSE "final"
            /\ UNCHANGED << monConnects, devVars >>
       ELSE /\ monConnects' = monConnects + 1
            /\ monPc' = "connecting"
            /\ ConnectCalled
            /\ UNCHANGED attempts
    /\ UNCHANGED nChecks
    /\ UNCHANGED << sendVars, hubVars, codecVars, httpVars, stopPc, loaderVars, refVars >>

\* line 186: asyncio.sleep(reconnect_interval) between two rounds
MonitorWaited ==
    /\ monPc = "wait"
    /\ monPc' = "attempt"
    /\ UNCHANGED << attempts, monConnects, nChecks >>
    /\ UNCHANGED << devVars, sendVars, hubVars, codecVars, httpVars, stopPc, loaderVars, refVars >>

\* lines 172-174, 188 and 160-163: handle_disconnection makes its last
\* announcement and returns, or the announcement raises and the except
\* clause of check_device_status catches it; the check loop sleeps and goes
\* on
MonitorGivesUp ==
    /\ monPc = "final"
    /\ monPc' = "sleep"
    /\ UNCHANGED << attempts, monConnects, nChecks >>
    /\ UNCHANGED << devVars, sendVars, hubVars, codecVars, httpVars, stopPc, loaderVars, refVars >>

Monitor ==
    \/ MonitorChecks
    \/ MonitorBatteryRead
    \/ MonitorAttempt
    \/ MonitorWaited
    \/ MonitorGivesUp

(* ---------------------------- the HTTP API ----------------------------- *)
\* the bodies of POST /control/strength: a channel and a strength, in range
\* or not
HttpBodies ==
    { [channel |-> ch, strength |-> s] : ch \in {"a", "b"}, s \in {30, 130} }
NoBody == [channel |-> "", strength |-> 0]
NoSnapshot == << >>

\* the channel a body names and the other one
BodyChannel(body) == IF body.channel = "a" THEN "A" ELSE "B"
OtherChannel(ch) == IF ch = "A" THEN "B" ELSE "A"

\* line 196: the body's parameters are refused
BodyInvalid(body) ==
    \/ body.channel \notin {"a", "b"}
    \/ ~(0 <= body.strength /\ body.strength <= 100)

InitHttp ==
    /\ httpPc = [r \in HttpReqs |-> "idle"]
    /\ httpBody = [r \in HttpReqs |-> NoBody]
    /\ httpSnap = [r \in HttpReqs |-> NoSnapshot]
    /\ httpStatus = [r \in HttpReqs |-> 0]

\* request r ends with an HTTP status
HttpAnswers(r, status) ==
    /\ httpPc' = [httpPc EXCEPT ![r] = "done"]
    /\ httpStatus' = [httpStatus EXCEPT ![r] = status]

\* handle_set_strength, lines 182-188, and get_device, lines 160-164: a
\* request arrives; without a connected device it is answered 404, otherwise
\* get_state starts its battery read
HttpArrives(r) ==
    /\ httpPc[r] = "idle"
    /\ \E body \in HttpBodies : httpBody' = [httpBody EXCEPT ![r] = body]
    /\ IF HubDeviceConnected
       THEN /\ httpPc' = [httpPc EXCEPT ![r] = "state"]
            /\ UNCHANGED httpStatus
       ELSE HttpAnswers(r, 404)
    /\ UNCHANGED httpSnap
    /\ UNCHANGED << devVars, sendVars, hubVars, codecVars, monVars, stopPc, loaderVars, refVars >>

\* lines 188-190 and get_state, lines 362-378: the battery read ends and the
\* strengths of both channels are copied out of the returned snapshot; a
\* read that raises is answered 500
HttpStateRead(r) ==
    /\ httpPc[r] = "state"
    /\ \/ \E b \in BatteryReadings :
            /\ client # NoClient
            /\ link[client] = "open"
            /\ battery' = b
            /\ httpSnap' = [httpSnap EXCEPT ![r] = strength]
            /\ httpPc' = [httpPc EXCEPT ![r] = "json"]
            /\ UNCHANGED httpStatus
       \/ /\ HttpAnswers(r, 500)
          /\ UNCHANGED << battery, httpSnap >>
    /\ UNCHANGED httpBody
    /\ UNCHANGED << connected, strength, wave, schedVars, connVars, discVars,
                    cmdVars, client, link, compat, nConn, nDrops, encIn >>
    /\ UNCHANGED << sendVars, hubVars, codecVars, monVars, stopPc, loaderVars, refVars >>

\* the pair handle_set_strength passes to set_strength, lines 199-202: the
\* new value for the body's channel and the snapshot's value for the other
HttpPair(body, snap) ==
    IF body.channel = "a"
    THEN << body.strength, snap["B"] >>
    ELSE << snap["A"], body.strength >>

\* lines 192-202 and DGLabDevice.set_strength, lines 219-231: the body has
\* been read. Invalid parameters are answered 400; otherwise set_strength is
\* called with both strengths, stores them and starts its write, or raises
\* on a session that is no longer connected (answered 500)
HttpBodyRead(r) ==
    /\ httpPc[r] = "json"
    /\ IF BodyInvalid(httpBody[r])
       THEN /\ HttpAnswers(r, 400)
            /\ UNCHANGED << strength, encIn >>
       ELSE IF ~is_connected
       THEN /\ HttpAnswers(r, 500)
            /\ UNCHANGED << strength, encIn >>
       ELSE LET ab == HttpPair(httpBody[r], httpSnap[r])
            IN /\ strength' = StoredStrength(ab[1], ab[2])
               /\ encIn' = << strength'["A"], strength'["B"] >>
               /\ httpPc' = [httpPc EXCEPT ![r] = "write"]
               /\ UNCHANGED httpStatus
    /\ UNCHANGED << httpBody, httpSnap >>
    /\ UNCHANGED << connected, battery, wave, schedVars, connVars, discVars,
                    cmdVars, client, link, compat, nConn, nDrops >>
    /\ UNCHANGED << sendVars, hubVars, codecVars, monVars, stopPc, loaderVars, refVars >>

\* lines 231-238 and 204-206: the write ends, sent or not, and the request
\* is answered 200
HttpWritten(r) ==
    /\ httpPc[r] = "write"
    /\ HttpAnswers(r, 200)
    /\ UNCHANGED << httpBody, httpSnap >>
    /\ UNCHANGED << devVars, sendVars, hubVars, codecVars, monVars, stopPc, loaderVars, refVars >>

Http ==
    \E r \in HttpReqs :
      \/ HttpArrives(r)
      \/ HttpStateRead(r)
      \/ HttpBodyRead(r)
      \/ HttpWritten(r)

(* ------------------------------ shutdown ------------------------------- *)
InitStop == stopPc = "none"

\* DGLabWebSocketServer.stop, lines 79-87: on a running hub the stop event
\* is set and the update task is awaited for at most 2 s
HubStopCalled ==
    /\ running
    /\ stopPc = "none"
    /\ hub_stop_event' = TRUE
    /\ stopPc' = "waiting"
    /\ UNCHANGED << running, clients, pcClient, bcastPc, hBcast, bcastSize,
                    bcastSeen, bcastTo, ended, reqVars >>
    /\ UNCHANGED << devVars, sendVars, codecVars, monVars, httpVars, loaderVars, refVars >>

\* lines 87-99: the update task has ended, or the 2 s are over and wait_for
\* cancels it (the CancelledError ends the task at line 402); then every
\* registered connection is closed
HubStopWaited ==
    /\ stopPc = "waiting"
    /\ bcastPc' = "done"
    /\ hBcast' = NoClient
    /\ bcastTo' = 0
    /\ bcastSeen' = {}
    /\ stopPc' = "closing"
    /\ UNCHANGED << running, hub_stop_event, clients, pcClient, bcastSize,
                    ended, reqVars >>
    /\ UNCHANGED << devVars, sendVars, codecVars, monVars, httpVars, loaderVars, refVars >>

\* lines 98-103: the closes have been gathered and the device's disconnect()
\* is called
HubStopClosed ==
    /\ stopPc = "closing"
    /\ DisconnectCalled
    /\ stopPc' = "disconnecting"
    /\ UNCHANGED << sendVars, hubVars, codecVars, monVars, httpVars, loaderVars, refVars >>

\* lines 103-112: disconnect() has returned; the listening server is closed
\* and the hub is no longer running
HubStopDisconnected ==
    /\ stopPc = "disconnecting"
    /\ pcDisc = "idle"
    /\ running' = FALSE
    /\ stopPc' = "done"
    /\ UNCHANGED << hub_stop_event, clients, pcClient, bcastPc, hBcast,
                    bcastSize, bcastSeen, bcastTo, ended, reqVars >>
    /\ UNCHANGED << devVars, sendVars, codecVars, monVars, httpVars, loaderVars, refVars >>

HubStop ==
    \/ HubStopCalled
    \/ HubStopWaited
    \/ HubStopClosed
    \/ HubStopDisconnected

(* --------------------------- the plugin loader ------------------------- *)

\* no loader operation yet
NoOp == [op |-> "none", name |-> << >>, loaded |-> FALSE, returned |-> FALSE]

\* PluginLoader as main() leaves it (main.py, lines 64-76): the strength
\* sender's plugin loaded and registered
InitLoader ==
    /\ loaded = { P_osc }
    /\ loaderOp = NoOp
    /\ nOps = 0

\* whether a plugin's setup() or cleanup() can raise: vrchat_osc catches
\* everything itself (vrchat_osc/plugin.py, lines 505-576 and 582-607);
\* webui's setup re-raises (webui/plugin.py, lines 141-155) and its cleanup
\* runs a second event loop inside the running one (lines 120-131)
MayRaise(name) == IF name = P_webui THEN BOOLEAN ELSE { FALSE }

\* what the strength sender's plugin does to its task: cleanup cancels it
\* (vrchat_osc/plugin.py, lines 586-590), set_ws_server and setup forget the
\* pair sent last and start it (lines 729-746 and 517-522)
SenderCancelled ==
    /\ pcSend' = "cancelled"
    /\ hSend' = NoClient
    /\ UNCHANGED << last_sent_strength, sndDev >>

SenderRestarted ==
    /\ pcSend' = "sleep"
    /\ hSend' = NoClient
    /\ last_sent_strength' = [c \in Channels |-> NeverSent]
    /\ sndDev' = HubDevice

SenderLeftAlone == UNCHANGED << pcSend, hSend, last_sent_strength, sndDev >>

\* what no loader operation changes
LoaderFrame ==
    /\ UNCHANGED << devVars, codecVars, monVars, httpVars, stopPc, hubDevs >>
    /\ UNCHANGED << running, hub_stop_event, clients, pcClient, bcastPc,
                    hBcast, bcastSize, bcastSeen, bcastTo, ended,
                    pluginCalls, reqPc, reqFrom, reqMsg, reqReply, reqSize,
                    reqSeen, nMsgs, reqChanged, offered >>
    /\ UNCHANGED << target_strength, error_count, strength_scale, sendTs,
                    sendOutcome, lastReq, nUpd, tickWrites, nCoalesced,
                    wokeDown, failStreak, cfgFile, config,
                    THROTTLE_INTERVAL >>

\* load_plugin, lines 63-134: a loaded plugin is left alone; otherwise the
\* module is set up and, unless that raises, its handler is registered with
\* the hub and the module is kept
LoadPlugin(name) ==
    /\ nOps < MaxLoaderOps
    /\ nOps' = nOps + 1
    /\ IF name \in loaded
       THEN /\ loaderOp' = [op |-> "load", name |-> name, loaded |-> TRUE,
                            returned |-> TRUE]
            /\ UNCHANGED << loaded, plugins >>
            /\ SenderLeftAlone
       ELSE \E raised \in MayRaise(name) :
              /\ loaderOp' = [op |-> "load", name |-> name,
                              loaded |-> FALSE, returned |-> ~raised]
              /\ IF raised
                 THEN UNCHANGED << loaded, plugins >>
                 ELSE /\ plugins' = plugins \cup { name }
                      /\ loaded' = loaded \cup { name }
              /\ IF name = P_osc THEN SenderRestarted ELSE SenderLeftAlone
    /\ LoaderFrame

\* unload_plugin, lines 151-183: a plugin that is not loaded is refused;
\* otherwise cleanup() is called and then the module and the hub's handler
\* are deleted. cleanup() is inside the try block: when it raises the except
\* clause returns False and both entries stay
UnloadPlugin(name) ==
    /\ nOps < MaxLoaderOps
    /\ nOps' = nOps + 1
    /\ IF name \notin loaded
       THEN /\ loaderOp' = [op |-> "unload", name |-> name,
                            loaded |-> FALSE, returned |-> FALSE]
            /\ UNCHANGED << loaded, plugins >>
            /\ SenderLeftAlone
       ELSE \E raised \in MayRaise(name) :
              /\ loaderOp' = [op |-> "unload", name |-> name,
                              loaded |-> TRUE, returned |-> ~raised]
              /\ IF raised
                 THEN UNCHANGED << loaded, plugins >>
                 ELSE /\ loaded' = loaded \ { name }
                      /\ plugins' = plugins \ { name }
              /\ IF name = P_osc THEN SenderCancelled ELSE SenderLeftAlone
    /\ LoaderFrame

Loader ==
    \E name \in PluginDirs :
      \/ LoadPlugin(name)
      \/ UnloadPlugin(name)

(* ------------------------- device references -------------------------- *)
\* main.py, lines 56-76: the hub is made with the first device and the
\* plugins' set_ws_server copies that reference
InitRefs ==
    /\ hubDevs = << 1 >>
    /\ sndDev = 1

InitExt == InitMonitor /\ InitHttp /\ InitStop /\ InitLoader /\ InitRefs

\* the device session alone: the sender's producers silent, the sender at
\* DEFAULT_CONFIG's scale factor, the hub not started
Init ==
    /\ InitDevice
    /\ WAVE_PRESET = DEFAULT_WAVE_PRESET
    /\ InitSender
    /\ strength_scale = <<1, 10>>
    /\ InitHub
    /\ InitCodec
    /\ InitExt

Next ==
    \/ Connect
    \/ Disconnect
    \/ Scheduler
    \/ Command
    \/ LinkDrop

Spec == Init /\ [][Next]_vars

\* the strength sender and its producers over an established session that
\* loses its link or is disconnected
InitSenderSession ==
    /\ SessionUp
    /\ WAVE_PRESET = DEFAULT_WAVE_PRESET
    /\ InitSender
    /\ InitHub
    /\ InitCodec
    /\ InitExt

NextSender ==
    \/ Disconnect
    \/ LinkDrop
    \/ Sender
    \/ update_target_strength

SpecSender == InitSenderSession /\ [][NextSender]_vars

\* the started hub, its clients and its periodic broadcast over an
\* established session that may lose its link
InitHubSession ==
    /\ SessionUp
    /\ WAVE_PRESET = DEFAULT_WAVE_PRESET
    /\ InitSender
    /\ strength_scale = <<1, 10>>
    /\ HubStarted
    /\ InitCodec
    /\ InitExt

\* the scheduler and the command producers over an established session
\* whose catalog was loaded from waveconfig.yaml
InitSchedSession ==
    /\ SessionUp
    /\ WAVE_PRESET = CONFIG_WAVE_PRESET
    /\ InitSender
    /\ strength_scale = <<1, 10>>
    /\ InitHub
    /\ InitCodec
    /\ InitExt

NextSched ==
    \/ Scheduler
    \/ Command
    \/ LinkDrop

SpecSched == InitSchedSession /\ [][NextSched]_vars

\* the codec functions applied to one input each
SpecCodec == Init /\ [][Codec]_vars

\* a session with no preset assigned that is connected, dropped and
\* disconnected again and again
InitRestart ==
    /\ InitDeviceOf(MaxRestarts)
    /\ WAVE_PRESET = DEFAULT_WAVE_PRESET
    /\ InitSender
    /\ strength_scale = <<1, 10>>
    /\ InitHub
    /\ InitCodec
    /\ InitExt

NextRestart ==
    \/ Connect
    \/ Disconnect
    \/ LinkDrop
    \/ \E t \in Tasks : TaskIter(t)

SpecRestart == InitRestart /\ [][NextRestart]_vars

\* the plugin from setup() on, over an established session: the
\* configuration is loaded, the sender starts and serves its producers
InitConfig ==
    /\ SessionUp
    /\ WAVE_PRESET = DEFAULT_WAVE_PRESET
    /\ InitPlugin
    /\ InitHub
    /\ InitCodec
    /\ InitExt

NextConfig ==
    \/ load_config
    \/ SenderStarts
    \/ Sender
    \/ update_target_strength

SpecConfig == InitConfig /\ [][NextConfig]_vars

\* the sender with unchanging targets over a session that is disconnected,
\* loses its link and is connected again
InitResend ==
    /\ InitSenderSession
    /\ strength_scale = <<1, 1>>

NextResend ==
    \/ Connect
    \/ Disconnect
    \/ LinkDrop
    \/ Sender

SpecResend == InitResend /\ [][NextResend]_vars

NextHub ==
    \/ Hub
    \/ LinkDrop

SpecHub == InitHubSession /\ [][NextHub]_vars

\* the connections of the hub's clients
ClientHandlers ==
    \/ \E c \in ClientIds : HandleClientOpens(c)
    \/ \E c \in ClientIds : HandleClientGreeted(c)
    \/ \E c \in ClientIds : HandleClientEnds(c)

\* the hub's clients send wave, preset and plugin messages over an
\* established session that may lose its link
InitDispatch ==
    /\ SessionUp
    /\ WAVE_PRESET = DEFAULT_WAVE_PRESET
    /\ InitSender
    /\ strength_scale = <<1, 10>>
    /\ HubStartedFor(WaveMessages \cup PluginMessages)
    /\ InitCodec
    /\ InitExt

NextDispatch ==
    \/ ClientHandlers
    \/ \E c \in ClientIds : HubReceives(c)
    \/ WaveWritten
    \/ HubStateSent
    \/ HubPluginReturned
    \/ LinkDrop

SpecDispatch == InitDispatch /\ [][NextDispatch]_vars

\* the hub's clients send scan_devices, connect_device and
\* disconnect_device over an established session that may lose its link
InitReconnect ==
    /\ SessionUp
    /\ WAVE_PRESET = DEFAULT_WAVE_PRESET
    /\ InitSender
    /\ strength_scale = <<1, 10>>
    /\ HubStartedFor(SessionMessages)
    /\ InitCodec
    /\ InitExt

NextReconnect ==
    \/ ClientHandlers
    \/ \E c \in ClientIds : HubReceives(c)
    \/ HubTornDown
    \/ HubScanned
    \/ HubConnectReturned
    \/ HubBroadcastStateRead
    \/ HubBroadcastSent
    \/ ConnectOpened
    \/ ConnectSettled
    \/ ConnectRejected
    \/ ConnectBatteryRead
    \/ ConnectReadBack
    \/ ConnectStrengthWritten
    \/ ConnectWaveAWritten
    \/ ConnectWaveBWritten
    \/ DisconnectWaited
    \/ DisconnectClosed
    \/ \E t \in Tasks : TaskIter(t)
    \/ LinkDrop

SpecReconnect == InitReconnect /\ [][NextReconnect]_vars

\* producers call update_battery, set_strength and set_wave on an
\* established session that is disconnected or loses its link
InitCalls ==
    /\ InitSenderSession
    /\ strength_scale = <<1, 10>>

NextCalls ==
    \/ CallUpdateBattery
    \/ BatteryReadEnds
    \/ CallSetStrength
    \/ StrengthWritten
    \/ CallSetWave
    \/ WaveWritten
    \/ Disconnect
    \/ LinkDrop
    \/ \E t \in Tasks : TaskIter(t)

SpecCalls == InitCalls /\ [][NextCalls]_vars

\* the scheduler of an established session whose channels are assigned
\* presets, and which is disconnected or loses its link
NextStop ==
    \/ Scheduler
    \/ CallSetWavePreset
    \/ Disconnect
    \/ LinkDrop

SpecStop == InitSchedSession /\ [][NextStop]_vars

\* presets are assigned while the session is connected, dropped,
\* disconnected and connected again, and the scheduler ticks
NextCursor ==
    \/ Connect
    \/ Disconnect
    \/ Scheduler
    \/ CallSetWavePreset
    \/ LinkDrop

SpecCursor == Init /\ [][NextCursor]_vars

\* the device monitor over an established session that loses its link or is
\* disconnected
NextMonitor ==
    \/ Monitor
    \/ Disconnect
    \/ LinkDrop

SpecMonitor == InitHubSession /\ [][NextMonitor]_vars

\* HTTP strength requests over an established session that may lose its
\* link
NextHttp ==
    \/ Http
    \/ LinkDrop

SpecHttp == InitHubSession /\ [][NextHttp]_vars

\* the hub is stopped while its clients, its update task, the scheduler's
\* session and the strength sender run
NextShutdown ==
    \/ HubStop
    \/ Hub
    \/ DisconnectWaited
    \/ DisconnectClosed
    \/ Sender
    \/ LinkDrop

SpecShutdown == InitHubSession /\ [][NextShutdown]_vars

\* plugins are loaded and unloaded while the hub's clients send plugin
\* messages
InitLoading ==
    /\ SessionUp
    /\ WAVE_PRESET = DEFAULT_WAVE_PRESET
    /\ InitSender
    /\ strength_scale = <<1, 10>>
    /\ HubStartedFor(PluginMessages)
    /\ InitCodec
    /\ InitExt

NextLoading ==
    \/ Loader
    \/ ClientHandlers
    \/ \E c \in ClientIds : HubReceives(c)
    \/ HubPluginReturned

SpecLoading == InitLoading /\ [][NextLoading]_vars

\* the strength sender runs while the hub's clients send scan_devices,
\* connect_device and disconnect_device
NextResync ==
    \/ NextReconnect
    \/ SenderWake
    \/ SenderWritten

SpecResync == InitReconnect /\ [][NextResync]_vars

(* ------------------------------- claims -------------------------------- *)
\* transport writes that have started and not ended yet
WritesInFlight ==
    (IF pcConn \in {"wS", "wA", "wB"} THEN 1 ELSE 0)
    + (IF pcCmd \in {"wS", "wW"} THEN 1 ELSE 0)
    + (IF pcSend = "writing" THEN 1 ELSE 0)
    + Cardinality({t \in Tasks : taskPc[t] \in {"wA", "wB"}})

\* C1: at any time at most one write to the transport is in flight.
C1_SingleWriter == WritesInFlight <= 1

\* C2: when connect() returns after establishing the session, both channels
\* report strength 1 and waveform (0,0,0).
C2_SafetyFloorOnConnect ==
    [][ (connResult' = "ok" /\ connResult # "ok")
        => /\ strength' = [c \in Channels |-> 1]
           /\ wave' = [c \in Channels |-> ZeroWave] ]_vars

\* C3: the stored strength of both channels and every pair handed to
\* bluetooth.set_strength are within 0..100.
C3_StrengthClamped ==
    /\ \A c \in Channels : strength[c] \in 0..100
    /\ encIn[1] \in 0..100
    /\ encIn[2] \in 0..100

\* C3 witness: an out-of-range request (-7, 130) was stored and handed on
C3_Witness ==
    /\ pcCmd = "wS"
    /\ strength = [c \in Channels |-> IF c = "A" THEN 0 ELSE 100]
    /\ encIn = <<0, 100>>

\* C4: DeviceState.connected is true only while the session holds a
\* transport handle whose link is open and whose services were verified.
C4_ConnectedMeansOpenLink ==
    connected => /\ client # NoClient
                 /\ link[client] = "open"
                 /\ compat[client]

C9_DefaultsAfterDisconnect ==
    [][ (discResult' = "done" /\ discResult # "done")
        => /\ connected' = FALSE
           /\ battery' = 0
           /\ strength' = [c \in Channels |-> 0]
           /\ wave' = [c \in Channels |-> ZeroWave] ]_vars

\* C10: the first triple the scheduler reads for a channel after a preset
\* was assigned to it is the preset's element 0.
C10_FirstTripleIsElementZero ==
    \A c \in Channels : firstIdx[c] \in {NoneAssigned, NotReadYet, 0}

\* C5: when a strength write of the sender fails, the sender counts the
\* failure and forgets what it last sent, so that the next wake-up sends the
\* current target again.
C5_FailedWriteForcesResend ==
    [][(pcSend = "writing" /\ pcSend' # "writing" /\ sendOutcome' = "failed")
         => /\ error_count' = error_count + 1
            /\ last_sent_strength' = [c \in Channels |-> NeverSent]]_vars

\* the pair the last supplied targets scale to
ScaledLastReq ==
    << ScaledStrength(ClampStrength(lastReq["A"]), strength_scale),
       ScaledStrength(ClampStrength(lastReq["B"]), strength_scale) >>

\* C6: however many update_target_strength calls came since the previous
\* wake-up, a wake-up of the sender issues at most one set_strength write,
\* and that write carries, for each channel, the scaled value of the target
\* supplied last.
C6_ThrottleCoalesces ==
    [][/\ tickWrites' <= 1
       /\ (pcSend # "writing" /\ pcSend' = "writing")
            => /\ pcSend = "sleep"
               /\ tickWrites' = 1
               /\ sendTs' = ScaledLastReq'
               /\ encIn' = ScaledLastReq']_vars

\* a write in flight that covers two calls, the later one on channel A, and
\* carries a truncated product (45 * 1.5)
C6_Witness ==
    /\ pcSend = "writing"
    /\ nCoalesced = MaxUpdates
    /\ lastReq["A"] = 45
    /\ sendTs[1] = 67
    /\ is_connected

\* C7: while the hub is running and has not been told to stop, its periodic
\* state broadcast has not ended.
C7_BroadcastNeverStops ==
    (running /\ ~hub_stop_event) => bcastPc # "done"

\* the scheduler has a write for channel ch in flight
TickInFlight(ch) ==
    \E t \in Tasks : taskPc[t] = (IF ch = "A" THEN "wA" ELSE "wB")

\* the index the k-th tick uses, for the last tick started, given k + 1
\* modulo n
LastTickIndex(ch) ==
    (tickNo[ch] + Len(assignedSet[ch]) - 1) % Len(assignedSet[ch])

\* C11: for a channel that was assigned a preset of n triples once and never
\* again, the k-th scheduler tick hands preset[k mod n] to set_wave and
\* leaves the cursor at (k + 1) mod n (so n ticks bring it back to 0), and
\* a tick whose write went through leaves that triple as the channel's
\* stored waveform.
C11_PresetCycles ==
    /\ [](\A ch \in Channels :
            (nAssign[ch] = 1 /\ firstIdx[ch] >= 0)
            => /\ lastTick[ch] = assignedSet[ch][LastTickIndex(ch) + 1]
               /\ channel_wave_set[ch] # << >>
                  => wave_index[ch] = IF TickInFlight(ch)
                                      THEN LastTickIndex(ch)
                                      ELSE tickNo[ch])
    /\ [][\A ch \in Channels :
            (nAssign[ch] = 1 /\ TickInFlight(ch) /\ ~TickInFlight(ch)')
            => wave'[ch] \in {wave[ch], lastTick[ch]}]_vars

\* C11 witness: after three ticks of the three-triple preset on channel A
\* the cursor is back at 0 and the last triple written is the third
C11_Witness ==
    /\ nAssign["A"] = 1
    /\ assignedSet["A"] = CONFIG_WAVE_PRESET["Triple"]
    /\ firstIdx["A"] = 0
    /\ ~TickInFlight("A")
    /\ tickNo["A"] = 0
    /\ wave_index["A"] = 0
    /\ lastTick["A"] = CONFIG_WAVE_PRESET["Triple"][3]
    /\ wave["A"] = CONFIG_WAVE_PRESET["Triple"][3]

\* the bitwise or of two naturals
RECURSIVE BitOr(_, _)
BitOr(a, b) ==
    IF a = 0 THEN b
    ELSE IF b = 0 THEN a
    ELSE Max2(a % 2, b % 2) + 2 * BitOr(a \div 2, b \div 2)

\* the three little-endian bytes of a 24-bit value
LittleEndian3(v) == << v % 256, (v \div 256) % 256, (v \div 65536) % 256 >>

Clamp(v, lo, hi) == IF v < lo THEN lo ELSE IF v > hi THEN hi ELSE v

Percentages == 0..100

\* C12: for a, b in 0..100, decoding the three bytes that encoding (a, b)
\* produced gives a pair whose components are each within 1 of a and of b.
C12_RoundTripWithinOne ==
    (codPc = "roundtrip" /\ codIn \in Percentages \X Percentages)
    => \A i \in 1..2 : codOut[i] - codIn[i] \in {-1, 0, 1}

\* C12 witness: (50, 0) was encoded and decoded, and came back as (49, 0)
C12_Witness ==
    /\ codPc = "roundtrip"
    /\ codIn = << 50, 0 >>
    /\ codOut = << 49, 0 >>

\* the raw value of a percentage, rounded to nearest
RoundedRaw(pct) == Clamp((2 * pct * 1023 + 100) \div 200, 0, 1023)

\* C13: for a, b in 0..100 the strength bytes are the little-endian bytes of
\* ((2*ra) << 11) | (2*rb) where ra and rb are the percentages scaled by
\* 1023/100 and rounded to nearest; (50, 0) is written as 00 00 20.
C13_StrengthBytes ==
    (codPc = "strength" /\ codIn \in Percentages \X Percentages)
    => /\ codBytes = LittleEndian3(BitOr((2 * RoundedRaw(codIn[1])) * 2048,
                                         2 * RoundedRaw(codIn[2])))
       /\ codIn = << 50, 0 >> => codBytes = << 0, 0, 32 >>

\* C14: the waveform bytes are the little-endian bytes of
\* (z' << 15) | (y' << 5) | x' with x', z' clamped to 0..31 and y' to
\* 0..1023; (40, 2000, 50) is written as (31, 1023, 31) is, and three bytes
\* are always produced.
C14_WaveBytes ==
    codPc = "wave"
    => /\ Len(codBytes) = 3
       /\ codBytes = LittleEndian3(BitOr(BitOr(Clamp(codIn[3], 0, 31) * 32768,
                                               Clamp(codIn[2], 0, 1023) * 32),
                                         Clamp(codIn[1], 0, 31)))
       /\ codIn = << 40, 2000, 50 >> => codBytes = EncodeWave(31, 1023, 31)

\* C14 witness: (40, 2000, 50) was encoded, as FF FF 0F
C14_Witness ==
    /\ codPc = "wave"
    /\ codIn = << 40, 2000, 50 >>
    /\ codBytes = << 255, 255, 15 >>

\* C16: decoding a read-back payload that is not exactly three bytes long
\* yields no strength pair.
C16_ShortPayloadRejected ==
    (codPc = "readback" /\ Len(codBytes) # 3) => codOut = << >>

\* C15: in every state the waveform stored for a channel is within the
\* device's ranges, X and Z in 0..31 and Y in 0..1023 (a successful set_wave
\* stores the triple that was transmitted, which is clamped).
C15_StoredWaveIsTransmitted ==
    \A ch \in Channels :
        /\ wave[ch][1] \in 0..31
        /\ wave[ch][2] \in 0..1023
        /\ wave[ch][3] \in 0..31

\* C17: when connect() finds the required services missing it closes the
\* link and raises, leaving connected false, having written no strength and
\* no waveform and started no scheduler.
C17_IncompatibleDeviceRejected ==
    [][ (pcConn = "reject" /\ pcConn' = "idle")
        => /\ connResult' = "raised"
           /\ link'[hConn] = "closed"
           /\ ~connected'
           /\ UNCHANGED << strength, wave, encIn, wave_task, nTasks, taskPc >>
      ]_vars

\* a scheduler task that has not ended
SchedulerRunning == \E t \in Tasks : taskPc[t] \notin {"none", "done"}

\* C18: whenever connect() raises, the session is left disconnected:
\* connected is false, no link is open and no scheduler task is running.
C18_RaiseLeavesDisconnected ==
    [][ (pcConn # "idle" /\ pcConn' = "idle" /\ connResult' = "raised")
        => /\ ~connected'
           /\ \A h \in Handles : link'[h] # "open"
           /\ ~SchedulerRunning'
      ]_vars

\* C19: set_strength stores clamp(a), clamp(b) before it writes; when the
\* write ends, sent or not, it does not raise, leaves the stored pair as it
\* is and returns the stored pair.
C19_StrengthStoredBeforeWrite ==
    /\ [][ (pcCmd = "idle" /\ pcCmd' = "wS")
           => strength' = [c \in Channels |->
                             Clamp(cmdArg'[IF c = "A" THEN 1 ELSE 2], 0, 100)]
         ]_vars
    /\ [][ (pcCmd = "wS" /\ pcCmd' = "idle")
           => /\ cmdResult' \in {"ok", "unsent"}
              /\ strength' = strength
              /\ cmdRet' = << strength'["A"], strength'["B"] >>
         ]_vars

\* C19 witness: set_strength(-7, 130) returned (0, 100), the pair stored,
\* after a write that was not sent
C19_Witness ==
    /\ cmdResult = "unsent"
    /\ cmdRet = << 0, 100 >>
    /\ strength = [c \in Channels |-> IF c = "A" THEN 0 ELSE 100]

\* C20: a set_wave whose write fails leaves the waveform stored for both
\* channels as it was and returns the failure; a write over a link that is
\* not open fails.
C20_FailedWaveWriteKeepsState ==
    [][ (pcCmd = "wW" /\ pcCmd' = "idle")
        => /\ link[hCmd] # "open" => cmdResult' = "failed"
           /\ cmdResult' = "failed" => wave' = wave
           /\ cmdResult' \in {"ok", "failed"}
      ]_vars

\* C20 witness: the stored waveforms are the initial ones after a set_wave
\* that returned the failure
C20_Witness ==
    /\ cmdResult = "failed"
    /\ pcCmd = "idle"
    /\ wave = [c \in Channels |-> ZeroWave]

\* C22: at most one scheduler task of the session is active at any time.
C22_OneScheduler ==
    Cardinality({t \in Tasks : taskPc[t] \notin {"none", "done"}}) <= 1

\* C23: update_target_strength(channel, v) sets that channel's target to v
\* clamped to 0..100 and changes nothing else: no transport write is
\* started, and the last-sent pair, the other channel's target and the
\* device state stay as they are.
C23_UpdateOnlySetsTarget ==
    [][ nUpd' = nUpd + 1
        => /\ \E ch \in Channels :
                /\ \A o \in Channels \ {ch} :
                      /\ lastReq'[o] = lastReq[o]
                      /\ target_strength'[o] = target_strength[o]
                /\ target_strength'[ch] = Clamp(lastReq'[ch], 0, 100)
           /\ UNCHANGED << last_sent_strength, dsVars, encIn, pcSend, hSend,
                           sendTs, link, error_count >>
      ]_vars

\* C23 witness: after update_target_strength("A", 130) the target of A is
\* 100, that of B is 0, and nothing was sent
C23_Witness ==
    /\ nUpd = 1
    /\ lastReq = [c \in Channels |-> IF c = "A" THEN 130 ELSE 0]
    /\ target_strength = [c \in Channels |-> IF c = "A" THEN 100 ELSE 0]
    /\ last_sent_strength = [c \in Channels |-> NeverSent]
    /\ pcSend = "sleep"

\* C25: the fifth failed send in a row puts the sender into its 10 s pause,
\* and a send that succeeded leaves the failure count at 0.
C25_PauseAfterFiveFailures ==
    [][ (pcSend = "writing" /\ pcSend' # "writing")
        => /\ failStreak' = 5 => pcSend' = "pause"
           /\ sendOutcome' = "ok" => error_count' = 0
      ]_vars

\* C26: once started the sender works with a positive numeric scale, which
\* is 1.0 when the configured strength_scale_factor is absent, not positive
\* or not a number, and the pair a wake-up hands to set_strength is, per
\* channel, the target times that scale, truncated and clamped to 0..100.
C26_ScaleFallsBackToOne ==
    /\ [](pcSend # "start"
          => /\ strength_scale # NotANumber
             /\ strength_scale[1] > 0 /\ strength_scale[2] > 0
             /\ (config.scale = << >> \/ config.scale = NotANumber
                 \/ config.scale[1] <= 0)
                => strength_scale = <<1, 1>>)
    /\ [][ (pcSend = "sleep" /\ pcSend' = "writing")
           => \A i \in 1..2 :
                 sendTs'[i] =
                    Clamp((target_strength[IF i = 1 THEN "A" ELSE "B"]
                             * strength_scale[1]) \div strength_scale[2],
                          0, 100)
         ]_vars

\* C27: once the configuration is loaded, from config.yaml, from
\* config.json or from the built-in default, the sender's wake interval is
\* the larger of 50 ms and the configuration's throttle_interval_ms, and
\* 100 ms when the configuration gives none.
C27_IntervalFromConfig ==
    config.loaded
    => THROTTLE_INTERVAL =
          IF config.interval = << >> THEN 100
          ELSE IF config.interval[1] < 50 THEN 50 ELSE config.interval[1]

\* C24: a wake-up of the sender that finds the session disconnected starts
\* no send and leaves the never-sent value as last-sent pair of both
\* channels, and the first wake-up that finds the session connected again
\* hands the scaled targets to set_strength, whatever was sent before.
C24_ResendAfterReconnect ==
    /\ [](wokeDown
          => /\ last_sent_strength = [c \in Channels |-> NeverSent]
             /\ pcSend = "sleep")
    /\ [][ /\ (~wokeDown /\ wokeDown')
              => UNCHANGED << encIn, strength, pcSend >>
           /\ (wokeDown /\ ~wokeDown')
              => /\ pcSend' = "writing"
                 /\ \A i \in 1..2 :
                       sendTs'[i] =
                          Clamp((target_strength[IF i = 1 THEN "A" ELSE "B"]
                                   * strength_scale[1]) \div strength_scale[2],
                                0, 100)
                 /\ encIn' = sendTs'
         ]_vars

\* C24 witness: on the second link the pair (0, 0) is being written again
\* after a write of the same pair had gone through and a wake-up had found
\* the session disconnected
C24_Witness ==
    /\ pcSend = "writing"
    /\ hSend = 2
    /\ sendTs = <<0, 0>>
    /\ sendOutcome = "ok"
    /\ ~wokeDown

\* the ids in the registry
RegisteredIds(cl) == { cl[i] : i \in 1..Len(cl) }

\* the clients whose connection is open: accepted and not yet ended
OpenConnections(pc) == { c \in ClientIds : pc[c] \in {"hello", "open"} }

InvalidWaveCommand(msg) ==
    \/ /\ msg.type \in {T_set_wave, T_set_wave_preset}
       /\ msg.channel \notin {"A", "B", "a", "b"}
    \/ /\ msg.type = T_set_wave_preset
       /\ msg.preset_name \notin DOMAIN WAVE_PRESET

\* the link, the write in flight and the pair and triple handed to the
\* transport
TransportVars == << link, pcCmd, hCmd, cmdArg, encIn, taskPc, taskH, taskWave >>

\* C21: a set_wave or set_wave_preset message whose channel is not A or B
\* (in either case), and a set_wave_preset message whose preset name is not
\* in the catalog, is answered with an error in the step that receives it,
\* and that step starts no transport write and changes neither the
\* DeviceState nor any channel's assigned preset or cursor
C21_InvalidWaveCommandRejected ==
    [][ (nMsgs' = nMsgs + 1 /\ InvalidWaveCommand(reqMsg'))
        => /\ reqReply'.type = "error"
           /\ reqPc' = "idle"
           /\ UNCHANGED << dsVars, channel_wave_set, wave_index,
                           TransportVars >> ]_vars

\* a preset message for channel C was refused after one for channel b had
\* assigned the preset to B
C21_Witness ==
    /\ reqMsg = Message(T_set_wave_preset, "C", "Pulse", "")
    /\ reqReply.type = "error"
    /\ reqPc = "idle"
    /\ channel_wave_set["B"] = WAVE_PRESET["Pulse"]
    /\ channel_wave_set["A"] = << >>


\* sub occurs in seq as a run of consecutive elements
Contains(seq, sub) ==
    \E i \in 1..(Len(seq) - Len(sub) + 1) :
        SubSeq(seq, i, i + Len(sub) - 1) = sub

\* what follows "plugin_" in a message type
NameAfterPrefix(type) == [i \in 1..(Len(type) - 7) |-> type[i + 7]]

C29_SessionChangeBroadcast ==
    [][ ( /\ reqPc # "idle"
          /\ reqPc' = "idle"
          /\ reqMsg.type \in {T_scan_devices, T_connect_device,
                              T_disconnect_device}
          /\ reqChanged' )
        => RegisteredIds(clients') \subseteq reqSeen' ]_vars


\* C35: a call of update_battery, set_strength or set_wave on a session
\* that is not connected (the flag is down, there is no client, or the
\* client's link is not open) raises in the step that makes it: no read or
\* write starts and connected, battery, strength and wave stay as they were
C35_NotConnectedCallsRaise ==
    [][ ( /\ nCmds' = nCmds + 1
          /\ ~(connected /\ client # NoClient /\ link[client] = "open") )
        => /\ cmdResult' = "raised"
           /\ pcCmd' = "idle"
           /\ hCmd' = NoClient
           /\ UNCHANGED << dsVars, encIn, link >> ]_vars

\* a call raised on a session whose link had dropped while the flag was up
C35_Witness ==
    /\ cmdResult = "raised"
    /\ nCmds = 2
    /\ connected
    /\ client # NoClient
    /\ link[client] = "closed"


\* the session's link is up: the flag, a client, and the client's open link
LinkUp == connected /\ client # NoClient /\ link[client] = "open"

\* task t starts a write for channel ch in this step
TaskStartsWrite(t, ch) ==
    /\ taskPc'[t] = (IF ch = "A" THEN "wA" ELSE "wB")
    /\ taskPc[t] # taskPc'[t]

C38_CursorWithinPreset ==
    \A ch \in Channels :
        channel_wave_set[ch] # << >>
        => wave_index[ch] \in 0..(Len(channel_wave_set[ch]) - 1)

\* the cursor of the two-triple preset has wrapped: both triples were read
\* and the cursor is back at 0 while the preset is still assigned
C38_Witness ==
    /\ channel_wave_set["A"] = WAVE_PRESET["Pulse"]
    /\ wave_index["A"] = 0
    /\ nAssign["A"] = 1
    /\ lastTick["A"] = WAVE_PRESET["Pulse"][2]
    /\ \A t \in Tasks : taskPc[t] \notin {"wA", "wB"}

\* a registered plugin's message has just been received
PluginCalled == reqPc = "idle" /\ reqPc' = "plugin"

\* the call to a plugin's handler has just ended
PluginAnswered == reqPc = "plugin" /\ reqPc' # "plugin"

ReconnectGivenUp == monPc = "final" /\ auto_reconnect

\* C37: when the monitor finds the device disconnected and auto_reconnect
\* is enabled, handle_disconnection leaves its loop only after a connect()
\* that succeeded or after max_reconnect_attempts calls of device.connect()
\* have failed
C37_ReconnectCallsConnect ==
    ReconnectGivenUp => monConnects = max_reconnect_attempts

\* the handler of request r has just called set_strength, which stored
HttpStores(r) == httpPc[r] = "json" /\ httpPc'[r] = "write"

\* C39: an HTTP strength request for one channel leaves the other channel's
\* stored strength as it was when the request's set_strength ran, that is
\* at the last value another producer stored, whatever ran interleaved
C39_HttpKeepsOtherChannel ==
    [][ \A r \in HttpReqs :
          HttpStores(r) =>
            LET other == OtherChannel(BodyChannel(httpBody[r]))
            IN strength'[other] = strength[other] ]_vars

\* the strength sender's task has not exited
SenderRunning == pcSend # "cancelled"

\* C33: when the hub's stop() has completed, the update task and the
\* strength sender's task have ended and the device session is
\* disconnected
C33_ShutdownEndsTasks ==
    stopPc = "done" =>
        /\ bcastPc = "done"
        /\ ~SenderRunning
        /\ ~is_connected

\* unload_plugin(name) has just returned for a plugin that was loaded
Unloaded(name) ==
    /\ nOps' = nOps + 1
    /\ loaderOp'.op = "unload"
    /\ loaderOp'.name = name
    /\ loaderOp'.loaded

\* C36: when unload_plugin(name) returns for a loaded plugin the hub has no
\* handler for that name any more, and after every loader operation the
\* names the loader holds are the names the hub has handlers for
C36_UnloadRemovesRouting ==
    [][ /\ nOps' # nOps => loaded' = plugins'
        /\ \A name \in PluginDirs :
             Unloaded(name) => name \notin plugins' ]_vars

\* C40: the strength sender works on the hub's current device: a wake-up
\* finds the session down only when the hub's device is not connected, and
\* a transmission it starts goes to the hub's device
C40_SenderFollowsHubDevice ==
    [][ /\ (~wokeDown /\ wokeDown') => ~HubDeviceConnected
        /\ (pcSend = "sleep" /\ pcSend' = "writing")
             => (HubDeviceConnected /\ hSend' = client) ]_vars

\* the device object that opened handle h: the latest one made before h
SessionOf(h) ==
    CHOOSE d \in { hubDevs[i] : i \in DOMAIN hubDevs } :
        /\ d <= h
        /\ \A i \in DOMAIN hubDevs : hubDevs[i] <= h => hubDevs[i] <= d

\* the device objects with an open transport handle
OpenSessions == { SessionOf(h) : h \in { k \in Handles : link[k] = "open" } }

\* C31: at most one device object has an open transport handle
C31_OneOpenSession == Cardinality(OpenSessions) <= 1

====
